---- MODULE Spec2Model ----
(***************************************************************************)
(* Model of the OBBroadcast control UI: the worker process manager          *)
(* (ui/services/process_service.py), the application controller             *)
(* (ui/core/controller.py) and the timer-driven handlers of the main window *)
(* (ui/main_window.py).                                                     *)
(*                                                                          *)
(* Several specifications share the same variables:                         *)
(*   SpecPM     the process manager driven directly (start, stop, the       *)
(*              reader threads, the worker exiting on its own);             *)
(*   SpecUI     the main window: the operator's clicks and the one-shot and *)
(*              cooldown callbacks of the timer queue, with the status loop *)
(*              that enables and disables the button;                       *)
(*   SpecLoops  the periodic loops of the window and of the controller;     *)
(*   Spec       the controller's public operations called directly;         *)
(*   SpecOut    the worker's output on its way to the log widget;           *)
(*   SpecRedis, SpecTel, SpecLink  the telemetry client and the telemetry   *)
(*              tick, with the server reachable or not;                     *)
(*   SpecAnim, SpecDecay, SpecDb   the animation and the level functions;   *)
(*   SpecArgs   argument strings parsed and serialised;                     *)
(*   SpecFrame, SpecOrder  the status checks and the two ticks, from the    *)
(*              states the handlers bring about.                            *)
(* Time is abstracted: a callback scheduled with after() may run at any     *)
(* later step.                                                              *)
(***************************************************************************)
EXTENDS Integers, Sequences, FiniteSets, TLC

\* ------------------------------------------------------------------------
\* Bounds of the model
\* ------------------------------------------------------------------------
MaxSpawns == 2          \* worker processes launched in one run
MaxTimers == 2          \* pending callbacks of one kind in the Tk timer queue
MaxLines == 2           \* output lines one worker process writes
MaxSamples == 2         \* telemetry samples applied to the levels in one run
MaxFrames == 1          \* animation frames with simulated levels in one run

\* ------------------------------------------------------------------------
\* Program constants
\* ------------------------------------------------------------------------
COOLDOWN_SECONDS == 5
DEFAULT_PORT == 6379    \* the port of RedisService when none is given
STALE_THRESHOLD == 5    \* seconds
MIN_DB == -65           \* min_db of db_to_normalized
Scale == 10000          \* levels are integers in units of 1/Scale
DECAY_FACTOR == 85      \* factor of VUState.decay, in hundredths
DECAY_THRESHOLD == 100  \* threshold of VUState.decay (0.01), in 1/Scale

None == "<None>"        \* the value None of an optional string
NoClient == 0           \* the value None of RedisService._client

NoProc == 0             \* the value None of a process or thread handle
Procs == 1..MaxSpawns   \* process ids; the reader thread created by the
                        \* launch of process p has id p

Hosts == {"127.0.0.1", "10.0.0.2"}      \* Redis hosts of the model
Ports == {DEFAULT_PORT, 6380}           \* Redis ports of the model

\* values of simulate_vu_level(), in 1/Scale
SimLevels == {0, 9000}

\* the two draws of random.uniform(-a, a) for the left and the right level,
\* in hundredths of a: each channel at one end of the range
Draws == {<<-100, 100>>, <<100, -100>>}

\* decibel values handed to db_to_normalized: the range of the meter and
\* five values beyond each end
DbInputs == (MIN_DB - 5)..5

ServiceStatus == {"Running", "Stopped", "NotInstalled", "Unknown"}

\* The default argument string of the saved configuration, tokenised.
DefaultArgs ==
    <<"127.0.0.1", "emetteur", "transmission", "tx", "192.168.1.17",
      "-e", "pcm", "-r", "48000", "-j", "60", "-a", "auto">>

\* argument strings given to set_args: the default, one on another host,
\* one without a link name and one with an empty host
ArgStrings ==
    {DefaultArgs, <<"10.0.0.2:6380", "recepteur", "transmission", "rx">>,
     <<"127.0.0.1", "emetteur">>, <<"">>}

\* argument strings typed into the arguments field.  Those of the grammar:
\* for tx an optional peer, for rx an optional -d device, and any of the
\* options -e, -r, -j, -a in that order
Opt(flag, value, present) == IF present THEN <<flag, value>> ELSE <<>>

GrammarArgs ==
    {<<"127.0.0.1", "emetteur", "transmission", "tx">> \o peer
         \o Opt("-e", "opus", e) \o Opt("-r", "48000", r)
         \o Opt("-j", "60", j) \o Opt("-a", "alsa", a) :
         peer \in {<<>>, <<"192.168.1.17">>}, e \in BOOLEAN, r \in BOOLEAN,
         j \in BOOLEAN, a \in BOOLEAN}
    \cup {<<"10.0.0.2:6380", "recepteur", "transmission", "rx">>
              \o Opt("-e", "opus", e) \o Opt("-r", "48000", r)
              \o Opt("-j", "60", j) \o Opt("-a", "alsa", a)
              \o Opt("-d", "hw:0", d) :
              e \in BOOLEAN, r \in BOOLEAN, j \in BOOLEAN, a \in BOOLEAN,
              d \in BOOLEAN}

\* and others: the empty string, missing positionals, a peer given to rx, a
\* quoted empty value, a quoted link name of two words, an option without
\* its value, an unknown option
OtherArgs ==
    {<<>>, <<"127.0.0.1", "emetteur">>,
     <<"127.0.0.1", "recepteur", "transmission", "rx", "192.168.1.17">>,
     <<"127.0.0.1", "emetteur", "transmission", "tx", "-e", "">>,
     <<"127.0.0.1", "emetteur", "studio link", "tx", "192.168.1.17">>,
     <<"127.0.0.1", "emetteur", "transmission", "tx", "-a", "alsa", "-e">>,
     <<"127.0.0.1", "emetteur", "transmission", "tx", "-x", "-r", "48000">>}

ArgInputs == GrammarArgs \cup OtherArgs \cup {DefaultArgs}

VARIABLES
    \* --- environment ---
    venv_exists,        \* the venv interpreter exists on disk
    script_exists,      \* the worker entry point exists on disk
    fallback_exists,    \* the fallback PowerShell script exists on disk
    redis_status,       \* status of the Redis Windows service
    alive,              \* worker processes whose poll() is None
    \* --- OpenOBProcessManager ---
    process,            \* _process
    output_thread,      \* _output_thread
    spawned,            \* number of successful Popen calls so far
    thread_pc,          \* position of each reader thread in _stream_output
    thread_reads,       \* process whose stdout a reader thread iterates
    written,            \* lines each worker has written to its stdout
    taken,              \* lines read so far from each worker's stdout
    \* --- AppController / AppState ---
    openob_running,
    redis_running,
    cooldown_active,
    cooldown_remaining,
    args_string,        \* _args_string, as a token sequence
    vu_loop_running,    \* _vu_loop_running
    vu_after_id,        \* _vu_after_id (0 is None)
    vu_pending,         \* ids of pending _vu_loop_tick callbacks
    \* --- MainWindow ---
    btn_enabled,        \* main_action_btn state is 'normal'
    auto_start_var,
    auto_started,       \* _auto_started
    pending,            \* pending callbacks per handler in the timer queue
    log_queue,          \* texts of the pending after(0) callbacks scheduled
                        \* by _on_log_message for worker output lines
    \* --- RedisService ---
    has_redis,          \* HAS_REDIS: the redis library could be imported
    rs_client,          \* _client (NoClient is None)
    rs_host,            \* _host
    rs_port,            \* _port
    \* --- telemetry state of the controller ---
    link_config,        \* _link_config
    local_vu,           \* state.local_vu
    remote_vu,          \* state.remote_vu
    receiver_level,     \* state.receiver_level
    vu_diag_state,      \* state.vu_diag_state
    vu_samples,         \* number of samples applied by _apply_vu_data so far
    vu_frames,          \* number of frames animate_vu has simulated so far
    \* --- ConfigStorageService ---
    disk,               \* how the next write of app_settings.json ends
    saved_config,       \* _config
    config_file,        \* what app_settings.json holds
    \* --- observation of the last operation ---
    last

pmVars   == <<process, output_thread, spawned, alive, thread_pc, thread_reads>>
cdVars   == <<cooldown_active, cooldown_remaining>>
vars     == <<venv_exists, script_exists, fallback_exists, redis_status,
              alive, process, output_thread, spawned, thread_pc,
              thread_reads, openob_running, redis_running, cooldown_active,
              cooldown_remaining, args_string, vu_loop_running, vu_after_id,
              vu_pending, btn_enabled, auto_start_var, auto_started, pending,
              written, taken, log_queue, has_redis, rs_client, rs_host,
              rs_port, link_config, local_vu, remote_vu, receiver_level,
              vu_diag_state, vu_samples, vu_frames, disk, saved_config,
              config_file, last>>

Timers == {"cooldown", "auto_start", "status", "animate", "telemetry"}

\* The program state an operation works on, as one record, followed by what
\* the operation returns and what it does on the way: the calls it makes to
\* the process manager and to the cooldown callbacks, the signals it sends to the worker, and the payloads
\* it passes to _notify_status_change; arg is the use_fallback argument of a
\* direct call of start_openob; logged are the texts of the worker output
\* and VU status messages it hands to _log; args are the arguments of a
\* direct call of RedisService.connect or of set_args, and the records and
\* random draws a telemetry tick or an animation frame met.
Cur ==
    [process |-> process, output_thread |-> output_thread,
     spawned |-> spawned, alive |-> alive, thread_pc |-> thread_pc,
     thread_reads |-> thread_reads,
     openob_running |-> openob_running, redis_running |-> redis_running,
     cooldown_active |-> cooldown_active,
     cooldown_remaining |-> cooldown_remaining,
     vu_loop_running |-> vu_loop_running, vu_after_id |-> vu_after_id,
     vu_pending |-> vu_pending,
     btn_enabled |-> btn_enabled, auto_started |-> auto_started,
     pending |-> pending,
     written |-> written, taken |-> taken, log_queue |-> log_queue,
     args_string |-> args_string,
     rs_client |-> rs_client, rs_host |-> rs_host, rs_port |-> rs_port,
     link_config |-> link_config, local_vu |-> local_vu,
     remote_vu |-> remote_vu, receiver_level |-> receiver_level,
     vu_diag_state |-> vu_diag_state, vu_samples |-> vu_samples,
     vu_frames |-> vu_frames,
     saved_config |-> saved_config, config_file |-> config_file,
     success |-> TRUE, message |-> "", calls |-> {}, signals |-> <<>>,
     notified |-> <<>>, arg |-> FALSE, logged |-> <<>>, args |-> <<>>]

\* The state an operation leaves behind, with the record of the operation
Commit(s, op) ==
    /\ process' = s.process
    /\ output_thread' = s.output_thread
    /\ spawned' = s.spawned
    /\ alive' = s.alive
    /\ thread_pc' = s.thread_pc
    /\ thread_reads' = s.thread_reads
    /\ openob_running' = s.openob_running
    /\ redis_running' = s.redis_running
    /\ cooldown_active' = s.cooldown_active
    /\ cooldown_remaining' = s.cooldown_remaining
    /\ vu_loop_running' = s.vu_loop_running
    /\ vu_after_id' = s.vu_after_id
    /\ vu_pending' = s.vu_pending
    /\ btn_enabled' = s.btn_enabled
    /\ auto_started' = s.auto_started
    /\ pending' = s.pending
    /\ written' = s.written
    /\ taken' = s.taken
    /\ log_queue' = s.log_queue
    /\ args_string' = s.args_string
    /\ rs_client' = s.rs_client
    /\ rs_host' = s.rs_host
    /\ rs_port' = s.rs_port
    /\ link_config' = s.link_config
    /\ local_vu' = s.local_vu
    /\ remote_vu' = s.remote_vu
    /\ receiver_level' = s.receiver_level
    /\ vu_diag_state' = s.vu_diag_state
    /\ vu_samples' = s.vu_samples
    /\ vu_frames' = s.vu_frames
    /\ saved_config' = s.saved_config
    /\ config_file' = s.config_file
    /\ last' = [op |-> op, success |-> s.success, message |-> s.message,
                calls |-> s.calls, signals |-> s.signals,
                notified |-> s.notified, arg |-> s.arg,
                logged |-> s.logged, args |-> s.args]

\* ProcessResult(success=False, message=...)
Failure(s, message) == [s EXCEPT !.success = FALSE, !.message = message]

\* a call of the controller to a method of the process manager
Called(s, method) == [s EXCEPT !.calls = @ \cup {method}]

\* ========================================================================
\* LinkConfig and VUState (ui/core/models.py)
\* ========================================================================

\* An argument string is represented by the sequence of tokens that
\* shlex.split() makes of it; a token typed in quotes is one token even
\* when it is empty or holds a space.

\* the words a token contributes to a string that is later split again:
\* ' '.join() writes the token without its quotes
Words(tok) ==
    CASE tok = "" -> <<>>
      [] tok = "studio link" -> <<"studio", "link">>
      [] OTHER -> <<tok>>

\* ' '.join(parts), as the tokens shlex.split() makes of the result
RECURSIVE join(_)
join(parts) ==
    IF parts = <<>> THEN <<>> ELSE Words(Head(parts)) \o join(Tail(parts))

\* str.startswith('-'), over the tokens of the model
startswith_dash(tok) == tok \in {"-e", "-r", "-j", "-a", "-d", "-x"}

\* bool(x) of an optional string
truthy(x) == x \notin {None, ""}

\* LinkConfig(): the field defaults of the dataclass
LinkConfig ==
    [config_host |-> None, node_id |-> None, link_name |-> None,
     link_mode |-> None, peer_ip |-> None, encoding |-> "pcm",
     sample_rate |-> "", jitter_buffer |-> "", audio_backend |-> "auto"]

\* the option loop of from_args, from the 1-based position i
RECURSIVE parse_options(_, _, _)
parse_options(parts, i, config) ==
    IF i > Len(parts) THEN config
    ELSE IF parts[i] = "-e" /\ i + 1 <= Len(parts)
         THEN parse_options(parts, i + 2,
                            [config EXCEPT !.encoding = parts[i + 1]])
    ELSE IF parts[i] = "-r" /\ i + 1 <= Len(parts)
         THEN parse_options(parts, i + 2,
                            [config EXCEPT !.sample_rate = parts[i + 1]])
    ELSE IF parts[i] = "-j" /\ i + 1 <= Len(parts)
         THEN parse_options(parts, i + 2,
                            [config EXCEPT !.jitter_buffer = parts[i + 1]])
    ELSE IF parts[i] = "-a" /\ i + 1 <= Len(parts)
         THEN parse_options(parts, i + 2,
                            [config EXCEPT !.audio_backend = parts[i + 1]])
    ELSE parse_options(parts, i + 1, config)

\* LinkConfig.from_args(args_string)
from_args(parts) ==
    LET positional(i) == IF Len(parts) >= i THEN parts[i] ELSE None
        peer_ip == IF Len(parts) >= 5 /\ ~startswith_dash(parts[5])
                   THEN parts[5] ELSE None
        config == [LinkConfig EXCEPT !.config_host = positional(1),
                                     !.node_id = positional(2),
                                     !.link_name = positional(3),
                                     !.link_mode = positional(4),
                                     !.peer_ip = peer_ip]
    IN parse_options(parts, IF truthy(peer_ip) THEN 6 ELSE 5, config)

\* the list to_args builds before joining it
to_args_parts(c) ==
    LET field(x) == IF truthy(x) THEN <<x>> ELSE <<>>
        option(flag, x) == IF truthy(x) THEN <<flag, x>> ELSE <<>>
    IN field(c.config_host) \o field(c.node_id) \o field(c.link_name)
       \o field(c.link_mode)
       \o (IF c.link_mode = "tx" THEN field(c.peer_ip) ELSE <<>>)
       \o option("-e", c.encoding) \o option("-r", c.sample_rate)
       \o option("-j", c.jitter_buffer) \o option("-a", c.audio_backend)

\* to_args() that leaves out the audio backend
to_args_without_backend(c) ==
    join(to_args_parts([c EXCEPT !.audio_backend = ""]))

\* LinkConfig.to_args()
to_args(c) == join(to_args_parts(c))

\* VUState(): left and right in units of 1/Scale
VUState == [left |-> 0, right |-> 0, has_real_data |-> FALSE]

\* VUState.decay() without the snap to 0 below the threshold
decay_without_threshold(vu) ==
    [vu EXCEPT !.left = (@ * DECAY_FACTOR) \div 100,
               !.right = (@ * DECAY_FACTOR) \div 100]

\* VUState.decay(factor=0.85, threshold=0.01)
decay(vu) ==
    LET l == (vu.left * DECAY_FACTOR) \div 100
        r == (vu.right * DECAY_FACTOR) \div 100
    IN [vu EXCEPT !.left = IF l < DECAY_THRESHOLD THEN 0 ELSE l,
                  !.right = IF r < DECAY_THRESHOLD THEN 0 ELSE r]

\* VUState.average
average(vu) == (vu.left + vu.right) \div 2

\* VUState.max_level
max_level(vu) == IF vu.left >= vu.right THEN vu.left ELSE vu.right

\* ========================================================================
\* RedisService (ui/services/redis_service.py)
\* ========================================================================

\* connect() with an except clause that leaves _client as it was
connect_keeping_client(s, host, port, ping_ok) ==
    IF ~has_redis THEN Failure(s, "redis library not available")
    ELSE IF s.rs_client # NoClient /\ s.rs_host = host /\ s.rs_port = port
    THEN s
    ELSE LET s1 == Called(s, "StrictRedis") IN
         IF ping_ok
         THEN [s1 EXCEPT !.rs_client = 1, !.rs_host = host, !.rs_port = port]
         ELSE Failure(s1, "ping failed")

\* connect(host, port); ping_ok: the server answers the ping of a new client
connect(s, host, port, ping_ok) ==
    IF ~has_redis THEN Failure(s, "redis library not available")
    ELSE IF s.rs_client # NoClient /\ s.rs_host = host /\ s.rs_port = port
    THEN s
    ELSE LET s1 == Called(s, "StrictRedis") IN
         IF ping_ok
         THEN [s1 EXCEPT !.rs_client = 1, !.rs_host = host, !.rs_port = port]
         ELSE Failure([s1 EXCEPT !.rs_client = NoClient], "ping failed")

\* disconnect()
disconnect(s) ==
    [s EXCEPT !.rs_client = NoClient, !.rs_host = None,
              !.rs_port = DEFAULT_PORT]

\* is_connected
is_connected(s) == s.rs_client # NoClient

\* A Redis hash as hgetall() returns it, with decode_responses=True: a field
\* is absent, holds a decimal number (val) or holds some other text.  The
\* number of a timestamp field is the age of the record in seconds,
\* time.time() - timestamp.  level is the list of numbers the regular
\* expression of _parse_vu_values finds in the combined field (empty when
\* the field is absent); raises: hgetall() raises.
Absent == [kind |-> "absent", val |-> 0]
Text == [kind |-> "text", val |-> 0]
Num(n) == [kind |-> "num", val |-> n]

EmptyHash ==
    [left_db |-> Absent, right_db |-> Absent, level |-> <<>>,
     updated_ts |-> Absent, ts |-> Absent, raises |-> FALSE]

\* the record of a fresh sample of -20 and -10 dB
FreshHash ==
    [EmptyHash EXCEPT !.left_db = Num(-20), !.right_db = Num(-10),
                      !.ts = Num(0)]

\* the hashes a telemetry tick of the model meets: no record, the fresh
\* sample, the sample with an old updated_ts, and the sample with a left
\* level that is not a number
Hashes ==
    {EmptyHash, FreshHash, [FreshHash EXCEPT !.updated_ts = Num(6)],
     [FreshHash EXCEPT !.left_db = Text]}

\* the hashes fetch_vu_data is called with directly: every combination of
\* level fields and timestamps, and a failing hgetall
AllHashes ==
    {[left_db |-> l, right_db |-> r, level |-> lv, updated_ts |-> u,
      ts |-> t, raises |-> FALSE] :
         l \in {Absent, Text, Num(-20), Num(0)},
         r \in {Absent, Text, Num(-10)},
         lv \in {<<>>, <<-40>>, <<-3, -40, -65>>},
         u \in {Absent, Text, Num(0), Num(6)},
         t \in {Absent, Num(5), Num(6)}}
    \cup {[EmptyHash EXCEPT !.raises = TRUE]}

\* a or b, for two fields of a hash
or_else(a, b) == IF a.kind # "absent" THEN a ELSE b

\* _parse_vu_values(data): the pair (left, right), Absent for None
parse_vu_values(data) ==
    LET n == Len(data.level)
        found == data.left_db.kind # "absent" \/ data.right_db.kind # "absent"
        left == IF found \/ n = 0 THEN data.left_db
                ELSE IF n >= 2 THEN Num(data.level[n - 1])
                ELSE Num(data.level[1])
        right == IF found \/ n = 0 THEN data.right_db
                 ELSE Num(data.level[n])
    IN IF left.kind = "text" \/ right.kind = "text" THEN <<Absent, Absent>>
       ELSE <<left, IF right.kind # "absent" THEN right ELSE left>>

\* _parse_timestamp(data): the age of the record, Absent for None
parse_timestamp(data) ==
    LET ts == or_else(data.updated_ts, data.ts) IN
    IF ts.kind = "num" THEN ts ELSE Absent

\* VUData(left_db, right_db, timestamp, is_stale), and None
NoVUData ==
    [is_none |-> TRUE, left_db |-> 0, right_db |-> 0, timestamp |-> Absent,
     is_stale |-> FALSE]

\* fetch_vu_data() that never looks at the age of the record
fetch_vu_data_ignoring_age(s, data) ==
    LET lr == parse_vu_values(data) IN
    IF s.rs_client = NoClient \/ data.raises \/ data = EmptyHash
       \/ lr[1].kind = "absent" \/ lr[2].kind = "absent"
    THEN NoVUData
    ELSE [is_none |-> FALSE, left_db |-> lr[1].val, right_db |-> lr[2].val,
          timestamp |-> parse_timestamp(data), is_stale |-> FALSE]

\* fetch_vu_data(link_name, role); data: what hgetall(key) gives
fetch_vu_data(s, data) ==
    LET lr == parse_vu_values(data)
        timestamp == parse_timestamp(data)
    IN IF s.rs_client = NoClient THEN NoVUData
       ELSE IF data.raises THEN NoVUData
       ELSE IF data = EmptyHash THEN NoVUData
       ELSE IF lr[1].kind = "absent" \/ lr[2].kind = "absent" THEN NoVUData
       ELSE [is_none |-> FALSE, left_db |-> lr[1].val, right_db |-> lr[2].val,
             timestamp |-> timestamp,
             is_stale |-> /\ timestamp.kind = "num"
                          /\ timestamp.val > STALE_THRESHOLD]

\* parse_host_port(raw_host), over the host tokens of the model
parse_host_port(raw_host) ==
    IF ~truthy(raw_host) THEN <<None, DEFAULT_PORT>>
    ELSE IF raw_host = "10.0.0.2:6380" THEN <<"10.0.0.2", 6380>>
    ELSE IF raw_host = "10.0.0.2:x" THEN <<"10.0.0.2", DEFAULT_PORT>>
    ELSE <<raw_host, DEFAULT_PORT>>

\* ========================================================================
\* Level functions (ui/services/utils.py); levels are integers in 1/Scale
\* ========================================================================

\* math.pow(linear, 0.7) of linear = (db - MIN_DB) / (0 - MIN_DB), rounded
\* to 1/Scale, for every whole decibel value from MIN_DB to 5 dB
CurveTable ==
    <<0, 538, 874, 1161, 1420, 1661, 1887, 2101, 2307, 2506, 2697, 2884,
      3065, 3241, 3414, 3583, 3748, 3911, 4071, 4228, 4382, 4534, 4684,
      4832, 4979, 5123, 5266, 5406, 5546, 5684, 5820, 5955, 6089, 6222,
      6353, 6483, 6613, 6741, 6868, 6994, 7119, 7243, 7366, 7488, 7610,
      7731, 7850, 7969, 8088, 8205, 8322, 8438, 8554, 8669, 8783, 8896,
      9009, 9122, 9233, 9345, 9455, 9565, 9675, 9784, 9892, 10000,
      10107, 10214, 10321, 10427, 10532>>

curved(db) == CurveTable[db - MIN_DB + 1]

\* db_to_normalized(db_value) without the clamp of the input: math.pow
\* raises ValueError for a negative base, which returns 0.0
db_to_normalized_unclamped(db_value) ==
    IF db_value < MIN_DB THEN 0 ELSE curved(db_value)

\* db_to_normalized(db_value), for a numeric db_value
db_to_normalized(db_value) ==
    LET db == IF db_value < MIN_DB THEN MIN_DB
              ELSE IF db_value > 0 THEN 0 ELSE db_value
    IN curved(db)

\* max(0.0, min(1.0, x))
clamp01(x) == IF x < 0 THEN 0 ELSE IF x > Scale THEN Scale ELSE x

\* the band of apply_vu_jitter: <<smoothing factor in hundredths, jitter
\* amplitude in 1/Scale>>
jitter_band(avg_level) ==
    IF avg_level > 6000 THEN <<5, 1500>>
    ELSE IF avg_level > 3500 THEN <<20, 800>>
    ELSE IF avg_level > 1500 THEN <<40, 400>>
    ELSE <<60, 0>>

\* apply_vu_jitter() without the final clamp of the two levels
apply_vu_jitter_unclamped(left, right, avg_level, u) ==
    LET band == jitter_band(avg_level) IN
    <<left + (band[2] * u[1]) \div 100,
      right + (band[2] * u[2]) \div 100, band[1]>>

\* apply_vu_jitter(left, right, avg_level); u: the two draws of
\* random.uniform(-a, a), in hundredths of the amplitude a
apply_vu_jitter(left, right, avg_level, u) ==
    LET band == jitter_band(avg_level) IN
    <<clamp01(left + (band[2] * u[1]) \div 100),
      clamp01(right + (band[2] * u[2]) \div 100), band[1]>>

\* smooth_value(old_value, new_value, smooth_factor), the factor in
\* hundredths
smooth_value(old_value, new_value, smooth_factor) ==
    (smooth_factor * old_value + (100 - smooth_factor) * new_value) \div 100

\* get_refresh_rate_ms(avg_level)
get_refresh_rate_ms(avg_level) ==
    IF avg_level > 7000 THEN 40 ELSE IF avg_level > 4000 THEN 60 ELSE 80

\* ========================================================================
\* OpenOBProcessManager (ui/services/process_service.py)
\* ========================================================================

\* is_running: the handle is set and poll() is None
is_running(s) == s.process # NoProc /\ s.process \in s.alive

\* can_start(): the bool of the returned pair
can_start ==
    IF ~venv_exists THEN FALSE
    ELSE IF ~script_exists THEN fallback_exists
    ELSE TRUE

\* can_start(): the message of the returned pair
can_start_error ==
    IF ~venv_exists THEN "Venv python not found"
    ELSE IF ~script_exists /\ ~fallback_exists THEN "OpenOB script not found"
    ELSE ""

\* args.strip() is empty: no token at all
args_blank(args) == Len(args) = 0

\* start(): which command line is built
launch_cmd(use_fallback) ==
    IF use_fallback /\ fallback_exists THEN "fallback" ELSE "direct"

\* Popen: the direct command needs the interpreter to exist; any launch can
\* fail for another reason (spawn_ok = FALSE).
popen_ok(use_fallback, spawn_ok) ==
    spawn_ok /\ (launch_cmd(use_fallback) = "direct" => venv_exists)

\* start(), from the argument check on. A successful Popen gives a new
\* process; the controller always passes an output callback, so a reader
\* thread is created and started for it.
start_launch(s, args, use_fallback, spawn_ok) ==
    IF args_blank(args) THEN Failure(s, "Empty OpenOB arguments")
    ELSE IF popen_ok(use_fallback, spawn_ok)
    THEN LET p == s.spawned + 1 IN
         [s EXCEPT !.spawned = p,
                   !.process = p,
                   !.alive = @ \cup {p},
                   !.output_thread = p,
                   !.thread_pc = [q \in DOMAIN @ |->
                                     IF q = p THEN "started" ELSE @[q]],
                   !.success = TRUE,
                   !.message = IF use_fallback
                               THEN "Started OpenOB (fallback script)"
                               ELSE "Started OpenOB (direct venv)"]
    ELSE Failure(s, "launch error")

\* start()
start_unguarded(s, args, use_fallback, spawn_ok) ==
    start_launch(s, args, use_fallback, spawn_ok)

start(s, args, use_fallback, spawn_ok) ==
    IF is_running(s) THEN Failure(s, "OpenOB already running")
    ELSE start_launch(s, args, use_fallback, spawn_ok)

\* How a stop of a running worker can go: it exits on terminate() within the
\* timeout, it is killed after the timeout, or one of the calls raises (with
\* the worker left alive, or gone).
StopWays == {"graceful", "forced", "error_alive", "error_dead"}

\* stop() on a running worker that sends kill() after terminate() whether
\* wait() timed out or not
stop_terminate_kill_always(s, way) ==
    CASE way \in {"graceful", "forced"} ->
           [s EXCEPT !.alive = @ \ {s.process},
                     !.signals = @ \o <<"terminate", "kill">>,
                     !.success = TRUE, !.message = "OpenOB stopped"]
      [] way = "error_dead" ->
           [s EXCEPT !.alive = @ \ {s.process},
                     !.signals = @ \o <<"terminate">>,
                     !.success = FALSE, !.message = "stop error"]
      [] OTHER ->
           [s EXCEPT !.signals = @ \o <<"terminate">>,
                     !.success = FALSE, !.message = "stop error"]

\* stop() on a running worker, up to the point where the handle is cleared:
\* the signals sent, the worker's fate and the result
stop_terminate(s, way) ==
    CASE way = "graceful" ->
           [s EXCEPT !.alive = @ \ {s.process},
                     !.signals = @ \o <<"terminate">>,
                     !.success = TRUE, !.message = "OpenOB stopped"]
      [] way = "forced" ->
           [s EXCEPT !.alive = @ \ {s.process},
                     !.signals = @ \o <<"terminate", "kill">>,
                     !.success = TRUE, !.message = "OpenOB stopped"]
      [] way = "error_dead" ->
           [s EXCEPT !.alive = @ \ {s.process},
                     !.signals = @ \o <<"terminate">>,
                     !.success = FALSE, !.message = "stop error"]
      [] OTHER ->
           [s EXCEPT !.signals = @ \o <<"terminate">>,
                     !.success = FALSE, !.message = "stop error"]

\* stop()
stop_keep_on_error(s, way) ==
    IF ~is_running(s) THEN Failure(s, "OpenOB not running")
    ELSE IF way \in {"graceful", "forced"}
    THEN [stop_terminate(s, way) EXCEPT !.process = NoProc]
    ELSE stop_terminate(s, way)

stop(s, way) ==
    IF ~is_running(s) THEN Failure(s, "OpenOB not running")
    ELSE [stop_terminate(s, way) EXCEPT !.process = NoProc]

\* _stream_output, first evaluation of self._process (the if)
stream_output_check(s, t) ==
    [s EXCEPT !.thread_pc = [@ EXCEPT ![t] =
                 IF s.process # NoProc THEN "checked" ELSE "done"]]

\* _stream_output, second evaluation of self._process (the for): the thread
\* iterates the stdout of whatever process the handle names now; a handle
\* cleared in between raises AttributeError, which ends the thread.
stream_output_open(s, t) ==
    IF s.process # NoProc
    THEN [s EXCEPT !.thread_pc = [@ EXCEPT ![t] = "reading"],
                   !.thread_reads = [@ EXCEPT ![t] = s.process]]
    ELSE [s EXCEPT !.thread_pc = [@ EXCEPT ![t] = "done"]]

\* MainWindow._on_log_message(text): root.after(0, append_log(text))
on_log_message(s, text) == [s EXCEPT !.log_queue = Append(@, text)]

\* AppController._log(message, level, to_ui_only): the text goes to the file
\* logger unless to_ui_only, and to callbacks.on_log (set by the main window)
\* unless it is a debug message
log(s, text, level, to_ui_only) ==
    [s EXCEPT !.logged = Append(@, <<text, level, to_ui_only>>)]

\* _handle_openob_output(line) that hands the line to the window twice
handle_openob_output_twice(s, line) ==
    on_log_message(on_log_message(log(s, line, "info", TRUE), line), line)

\* AppController._handle_openob_output(line)
handle_openob_output(s, line) ==
    on_log_message(log(s, line, "info", TRUE), line)

\* _stream_output, one iteration of the for: the next line of the stream
\* the thread iterates is read and handed to the callback
stream_output_line(s, t) ==
    LET q == s.thread_reads[t]
        line == <<"OBBROADCAST", q, s.taken[q] + 1>>
    IN handle_openob_output([s EXCEPT !.taken[q] = @ + 1], line)

\* _stream_output, end of the for loop: the stream is at EOF once the
\* process it belongs to is gone
stream_output_eof(s, t) ==
    [s EXCEPT !.thread_pc = [@ EXCEPT ![t] = "done"]]

\* append_log(text), run by the timer queue on the control thread
append_log(s) == [s EXCEPT !.log_queue = Tail(@)]

\* ========================================================================
\* AppController (ui/core/controller.py)
\* ========================================================================

\* _notify_status_change: the payload handed to on_status_change
notify_status_change(s) ==
    [s EXCEPT !.notified = Append(@, <<s.redis_running, s.openob_running>>)]

\* is_redis_running(): state.redis_running follows the service status
is_redis_running(s) ==
    [s EXCEPT !.redis_running = (redis_status = "Running")]

\* is_openob_running() that returns the cached flag
is_openob_running_cached(s) == Called(s, "is_running")

\* is_openob_running(): state.openob_running follows the process handle
is_openob_running(s) ==
    [Called(s, "is_running") EXCEPT !.openob_running = is_running(s)]

\* check_requirements() that clears the cooldown on the way
check_requirements_resetting(s) ==
    notify_status_change(
        [Called(s, "is_running") EXCEPT
            !.redis_running = (redis_status = "Running"),
            !.openob_running = is_running(s),
            !.cooldown_active = FALSE, !.cooldown_remaining = 0])

\* check_requirements(): both flags refreshed, then the notification
check_requirements(s) ==
    notify_status_change(
        [Called(s, "is_running") EXCEPT
            !.redis_running = (redis_status = "Running"),
            !.openob_running = is_running(s)])

\* refresh_status()
refresh_status(s) ==
    notify_status_change(
        [Called(s, "is_running") EXCEPT
            !.redis_running = (redis_status = "Running"),
            !.openob_running = is_running(s)])

\* start_openob(), from the Redis check on, that notifies the status
\* change whether the launch succeeded or not
start_openob_notifying_failure(s, use_fallback, spawn_ok) ==
    LET s1 == is_redis_running(s) IN
    IF ~s1.redis_running THEN Failure(s1, "Redis not running")
    ELSE LET s2 == start(Called(s1, "start"), args_string, use_fallback,
                         spawn_ok) IN
         notify_status_change([s2 EXCEPT !.openob_running = s2.success])

\* start_openob(), from the Redis check on
start_openob_checked(s, use_fallback, spawn_ok) ==
    LET s1 == is_redis_running(s) IN
    IF ~s1.redis_running THEN Failure(s1, "Redis not running")
    ELSE LET s2 == start(Called(s1, "start"), args_string, use_fallback,
                         spawn_ok) IN
         IF s2.success
         THEN notify_status_change([s2 EXCEPT !.openob_running = TRUE])
         ELSE s2

\* start_openob() that proceeds whatever can_start() says
start_openob_no_can_start(s, use_fallback, spawn_ok) ==
    start_openob_checked(Called(s, "can_start"), use_fallback, spawn_ok)

\* start_openob()
start_openob(s, use_fallback, spawn_ok) ==
    LET s1 == Called(s, "can_start") IN
    IF ~can_start /\ ~use_fallback THEN Failure(s1, can_start_error)
    ELSE start_openob_checked(s1, use_fallback, spawn_ok)

\* stop_openob() without its first guard
stop_openob_unguarded(s, way) ==
    LET s1 == stop(Called(Called(s, "is_running"), "stop"), way) IN
    notify_status_change([s1 EXCEPT !.openob_running = FALSE])

\* stop_openob()
stop_openob(s, way) ==
    LET s1 == Called(s, "is_running") IN
    IF ~is_running(s1) THEN Failure(s1, "OpenOB not running")
    ELSE LET s2 == stop(Called(s1, "stop"), way) IN
         notify_status_change([s2 EXCEPT !.openob_running = FALSE])

\* start_cooldown(seconds) that takes the seconds as they are given
start_cooldown_as_given(s, seconds) ==
    [s EXCEPT !.cooldown_active = TRUE, !.cooldown_remaining = seconds]

\* start_cooldown(seconds); seconds = 0 stands for None as well
start_cooldown(s, seconds) ==
    [s EXCEPT !.cooldown_active = TRUE,
              !.cooldown_remaining =
                  IF seconds # 0 THEN seconds ELSE COOLDOWN_SECONDS]

\* tick_cooldown() that takes two seconds off at a time
tick_cooldown_by_two(s) ==
    IF ~s.cooldown_active THEN [s EXCEPT !.success = FALSE]
    ELSE IF s.cooldown_remaining - 2 <= 0
    THEN [s EXCEPT !.cooldown_active = FALSE, !.cooldown_remaining = 0,
                   !.success = FALSE]
    ELSE [s EXCEPT !.cooldown_remaining = @ - 2, !.success = TRUE]

\* tick_cooldown() that ends the cooldown with a second still to go
tick_cooldown_ending_early(s) ==
    IF ~s.cooldown_active THEN [s EXCEPT !.success = FALSE]
    ELSE IF s.cooldown_remaining - 1 <= 1
    THEN [s EXCEPT !.cooldown_active = FALSE, !.cooldown_remaining = 0,
                   !.success = FALSE]
    ELSE [s EXCEPT !.cooldown_remaining = @ - 1, !.success = TRUE]

\* tick_cooldown(); success stands for the returned bool, and the
\* callbacks on_cooldown_end and on_cooldown_tick are recorded in calls
tick_cooldown(s) ==
    IF ~s.cooldown_active THEN [s EXCEPT !.success = FALSE]
    ELSE IF s.cooldown_remaining - 1 <= 0
    THEN Called([s EXCEPT !.cooldown_active = FALSE,
                          !.cooldown_remaining = 0, !.success = FALSE],
                "on_cooldown_end")
    ELSE Called([s EXCEPT !.cooldown_remaining = @ - 1, !.success = TRUE],
                "on_cooldown_tick")

\* AppController._start_cooldown()
ctl_start_cooldown(s) == start_cooldown(s, COOLDOWN_SECONDS)

\* toggle_openob() that does not look at the cooldown
toggle_openob_ignoring_cooldown(s, way, spawn_ok) ==
    LET s1 == is_openob_running(s) IN
    IF s1.openob_running
    THEN LET s2 == stop_openob(s1, way) IN
         IF s2.success THEN ctl_start_cooldown(s2) ELSE s2
    ELSE start_openob(s1, FALSE, spawn_ok)

\* toggle_openob()
toggle_openob(s, way, spawn_ok) ==
    IF s.cooldown_active THEN Failure(s, "Cooldown active")
    ELSE LET s1 == is_openob_running(s) IN
         IF s1.openob_running
         THEN LET s2 == stop_openob(s1, way) IN
              IF s2.success THEN ctl_start_cooldown(s2) ELSE s2
         ELSE start_openob(s1, FALSE, spawn_ok)

\* ========================================================================
\* SavedConfig and ConfigStorageService (ui/services/config_storage.py)
\* ========================================================================

\* SavedConfig(), the defaults of the dataclass
SavedConfig ==
    [transmission_mode |-> "tx", vpn_enabled |-> FALSE,
     tx_config_host |-> "127.0.0.1", tx_node_name |-> "emetteur",
     tx_link_name |-> "transmission", tx_peer_ip |-> "192.168.1.17",
     tx_encoding |-> "pcm", tx_sample_rate |-> "48000",
     tx_jitter_buffer |-> "60", tx_audio_backend |-> "auto",
     rx_config_host |-> "192.168.1.15", rx_node_name |-> "recepteur",
     rx_link_name |-> "transmission", rx_audio_backend |-> "auto",
     rx_alsa_device |-> "", auto_start |-> TRUE]

\* app_settings.json: absent, the JSON text of a record, or a file that
\* was opened for writing and not written to the end
NoFile == [kind |-> "absent", data |-> SavedConfig]
JsonFile(c) == [kind |-> "json", data |-> c]
TruncatedFile == [kind |-> "truncated", data |-> SavedConfig]

\* how a write of the file ends: written, refused before the file is
\* opened (mkdir() or open() raises), or broken off after open() has
\* emptied the file (json.dump() raises)
SaveWays == {"ok", "refused", "truncated"}

\* the words str.split() makes of the text a token was typed as: the
\* quotes of a quoted token stay in the words
RawWords(tok) ==
    CASE tok = "" -> <<"\"\"">>
      [] tok = "studio link" -> <<"\"studio", "link\"">>
      [] OTHER -> <<tok>>

\* args.split()
RECURSIVE split(_)
split(parts) ==
    IF parts = <<>> THEN <<>>
    ELSE RawWords(Head(parts)) \o split(Tail(parts))

\* the options loop of update_from_args for mode tx, from index i (counted
\* from 1)
RECURSIVE tx_options(_, _, _)
tx_options(parts, i, c) ==
    IF i > Len(parts) THEN c
    ELSE IF parts[i] = "-e" /\ i + 1 <= Len(parts)
    THEN tx_options(parts, i + 2, [c EXCEPT !.tx_encoding = parts[i + 1]])
    ELSE IF parts[i] = "-r" /\ i + 1 <= Len(parts)
    THEN tx_options(parts, i + 2,
                    [c EXCEPT !.tx_sample_rate = parts[i + 1]])
    ELSE IF parts[i] = "-j" /\ i + 1 <= Len(parts)
    THEN tx_options(parts, i + 2,
                    [c EXCEPT !.tx_jitter_buffer = parts[i + 1]])
    ELSE IF parts[i] = "-a" /\ i + 1 <= Len(parts)
    THEN tx_options(parts, i + 2,
                    [c EXCEPT !.tx_audio_backend = parts[i + 1]])
    ELSE tx_options(parts, i + 1, c)

\* the options loop of update_from_args for mode rx
RECURSIVE rx_options(_, _, _)
rx_options(parts, i, c) ==
    IF i > Len(parts) THEN c
    ELSE IF parts[i] = "-a" /\ i + 1 <= Len(parts)
    THEN rx_options(parts, i + 2,
                    [c EXCEPT !.rx_audio_backend = parts[i + 1]])
    ELSE IF parts[i] = "-d" /\ i + 1 <= Len(parts)
    THEN rx_options(parts, i + 2,
                    [c EXCEPT !.rx_alsa_device = parts[i + 1]])
    ELSE rx_options(parts, i + 1, c)

\* update_from_args(args, mode) that takes the positional fields of both
\* roles from the string
update_from_args_both_roles(c, args, mode) ==
    LET parts == split(args)
        c1 == [c EXCEPT !.transmission_mode = mode]
        tx == [c1 EXCEPT !.tx_config_host = parts[1],
                         !.tx_node_name = parts[2],
                         !.tx_link_name = parts[3]]
        rx == [tx EXCEPT !.rx_config_host = parts[1],
                         !.rx_node_name = parts[2],
                         !.rx_link_name = parts[3]]
    IN IF Len(parts) < 4 THEN c1
       ELSE IF mode = "tx"
       THEN tx_options(parts, 6,
                [rx EXCEPT !.tx_peer_ip =
                               IF Len(parts) > 4 THEN parts[5] ELSE @])
       ELSE rx_options(parts, 5, rx)

\* update_from_args(args, mode), on the record c
update_from_args(c, args, mode) ==
    LET parts == split(args)
        c1 == [c EXCEPT !.transmission_mode = mode]
    IN IF Len(parts) < 4 THEN c1
       ELSE IF mode = "tx"
       THEN tx_options(parts, 6,
                [c1 EXCEPT !.tx_config_host = parts[1],
                           !.tx_node_name = parts[2],
                           !.tx_link_name = parts[3],
                           !.tx_peer_ip =
                               IF Len(parts) > 4 THEN parts[5] ELSE @])
       ELSE rx_options(parts, 5,
                [c1 EXCEPT !.rx_config_host = parts[1],
                           !.rx_node_name = parts[2],
                           !.rx_link_name = parts[3]])

\* the parts _get_tx_args() and _get_rx_args() join
with_option(flag, value) == IF value # "" THEN <<flag, value>> ELSE <<>>

get_tx_args(c) ==
    <<c.tx_config_host, c.tx_node_name, c.tx_link_name, "tx", c.tx_peer_ip>>
        \o with_option("-e", c.tx_encoding)
        \o with_option("-r", c.tx_sample_rate)
        \o with_option("-j", c.tx_jitter_buffer)
        \o with_option("-a", c.tx_audio_backend)

get_rx_args(c) ==
    <<c.rx_config_host, c.rx_node_name, c.rx_link_name, "rx">>
        \o with_option("-a", c.rx_audio_backend)
        \o with_option("-d", c.rx_alsa_device)

\* get_current_args(), as the tokens shlex.split() makes of the string:
\* an empty part leaves no token.  The parts of the records this is applied
\* to hold no quote character.
get_current_args(c) ==
    SelectSeq(IF c.transmission_mode = "rx" THEN get_rx_args(c)
              ELSE get_tx_args(c),
              LAMBDA part : part # "")

\* save() that reports success without writing the file
save_nothing(s) == s

\* save(): success is what it returns
save(s) ==
    CASE disk = "ok" -> [s EXCEPT !.config_file = JsonFile(s.saved_config)]
      [] disk = "refused" -> [s EXCEPT !.success = FALSE]
      [] OTHER -> [s EXCEPT !.config_file = TruncatedFile,
                            !.success = FALSE]

\* data.get(key, default), on the object json.load() returns
get(data, key, default) == IF key \in DOMAIN data THEN data[key] ELSE default

\* load(): the file is absent and the record in memory stays, or
\* json.load() raises on a file that is not JSON text and the record
\* stays, or a new record is built from the object of the file.  The file
\* holds the object json.dump() wrote of asdict(_config): strings and
\* booleans come back from JSON text as they went in.
load(s) ==
    LET data == s.config_file.data IN
    IF s.config_file.kind # "json" THEN s
    ELSE [s EXCEPT !.saved_config =
             [transmission_mode |-> get(data, "transmission_mode", "tx"),
              vpn_enabled |-> get(data, "vpn_enabled", FALSE),
              tx_config_host |-> get(data, "tx_config_host", "127.0.0.1"),
              tx_node_name |-> get(data, "tx_node_name", "emetteur"),
              tx_link_name |-> get(data, "tx_link_name", "transmission"),
              tx_peer_ip |-> get(data, "tx_peer_ip", "192.168.1.17"),
              tx_encoding |-> get(data, "tx_encoding", "pcm"),
              tx_sample_rate |-> get(data, "tx_sample_rate", "48000"),
              tx_jitter_buffer |-> get(data, "tx_jitter_buffer", "60"),
              tx_audio_backend |-> get(data, "tx_audio_backend", "auto"),
              rx_config_host |-> get(data, "rx_config_host", "192.168.1.15"),
              rx_node_name |-> get(data, "rx_node_name", "recepteur"),
              rx_link_name |-> get(data, "rx_link_name", "transmission"),
              rx_audio_backend |-> get(data, "rx_audio_backend", "auto"),
              rx_alsa_device |-> get(data, "rx_alsa_device", ""),
              auto_start |-> get(data, "auto_start", TRUE)]]

\* update(auto_start=enabled)
update_auto_start(s, enabled) ==
    [s EXCEPT !.saved_config.auto_start = enabled]

\* the mode set_args derives from the text: ' rx ' in args or
\* args.endswith(' rx')
mode_of(args) ==
    LET words == split(args) IN
    IF \E i \in 2..Len(words) : words[i] = "rx" THEN "rx" ELSE "tx"

\* ------------------------------------------------------------------------
\* Telemetry of the controller
\* ------------------------------------------------------------------------

\* _update_link_config() that keeps the client when the host changes
update_link_config_keeping_client(s) ==
    [s EXCEPT !.link_config = from_args(s.args_string)]

\* _update_link_config()
update_link_config(s) ==
    LET config == from_args(s.args_string)
        s1 == [s EXCEPT !.link_config = config]
    IN IF s.link_config.config_host # config.config_host
       THEN disconnect(s1) ELSE s1

\* set_args(args); what save() returns is dropped
set_args(s, args) ==
    LET s1 == update_link_config([s EXCEPT !.args_string = args])
        s2 == [s1 EXCEPT !.saved_config =
                             update_from_args(@, args, mode_of(args))]
    IN [save(s2) EXCEPT !.success = TRUE]

\* set_auto_start(enabled)
set_auto_start(s, enabled) ==
    [save(update_auto_start(s, enabled)) EXCEPT !.success = TRUE]

\* _record_vu_status(target, status, detail) without the comparison with
\* the previous status
record_vu_status_always(s, target, status, detail) ==
    log([s EXCEPT !.vu_diag_state[target] = status],
        <<target, status, detail>>,
        IF status = "ok" THEN "info" ELSE "warning", status # "ok")

\* _record_vu_status(target, status, detail)
record_vu_status(s, target, status, detail) ==
    IF s.vu_diag_state[target] = status THEN s
    ELSE log([s EXCEPT !.vu_diag_state[target] = status],
             <<target, status, detail>>,
             IF status = "ok" THEN "info" ELSE "warning", status # "ok")

\* _set_vu_silence(target, status, detail)
set_vu_silence(s, target, status, detail) ==
    record_vu_status(
        IF target = "local"
        THEN [s EXCEPT !.local_vu.has_real_data = FALSE]
        ELSE [s EXCEPT !.remote_vu.has_real_data = FALSE],
        target, status, detail)

\* _apply_vu_data() that stores the jittered levels without smoothing
apply_vu_data_unsmoothed(s, target, left_db, right_db, u) ==
    LET left_norm == db_to_normalized(left_db)
        right_norm == db_to_normalized(right_db)
        j == apply_vu_jitter(left_norm, right_norm,
                             (left_norm + right_norm) \div 2, u)
        vu == [left |-> j[1], right |-> j[2], has_real_data |-> TRUE]
        s1 == [s EXCEPT !.vu_samples = @ + 1]
    IN IF target = "local" THEN [s1 EXCEPT !.local_vu = vu]
       ELSE [s1 EXCEPT !.remote_vu = vu]

\* _apply_vu_data(target, left_db, right_db); u: the draws of the jitter
apply_vu_data(s, target, left_db, right_db, u) ==
    LET left_norm == db_to_normalized(left_db)
        right_norm == db_to_normalized(right_db)
        avg == (left_norm + right_norm) \div 2
        j == apply_vu_jitter(left_norm, right_norm, avg, u)
        apply(vu) == [left |-> smooth_value(vu.left, j[1], j[3]),
                      right |-> smooth_value(vu.right, j[2], j[3]),
                      has_real_data |-> TRUE]
        s1 == [s EXCEPT !.vu_samples = @ + 1]
    IN IF target = "local"
       THEN [s1 EXCEPT !.local_vu = apply(@)]
       ELSE [s1 EXCEPT !.remote_vu = apply(@)]

\* _fetch_and_apply_vu() that picks the target from the configured link
\* role: on a receiver the sample of tx goes to the remote target
fetch_and_apply_vu_by_mode(s, role, target, data, u) ==
    LET other == IF target = "local" THEN "remote" ELSE "local"
        tgt == IF s.link_config.link_mode = "rx" THEN other ELSE target
        vu_data == fetch_vu_data(s, data)
        s1 == Called(s, "fetch_vu_data")
    IN IF vu_data.is_none
       THEN set_vu_silence(s1, tgt, "no-data", <<"No data for", role>>)
       ELSE IF vu_data.is_stale
       THEN set_vu_silence(s1, tgt, "stale", <<"Stale data for", role>>)
       ELSE record_vu_status(
                apply_vu_data(s1, tgt, vu_data.left_db, vu_data.right_db, u),
                tgt, "ok", None)

\* _fetch_and_apply_vu(link, role, target); data: the hash of the role
fetch_and_apply_vu(s, role, target, data, u) ==
    LET vu_data == fetch_vu_data(s, data)
        s1 == Called(s, "fetch_vu_data")
    IN IF vu_data.is_none
       THEN set_vu_silence(s1, target, "no-data", <<"No data for", role>>)
       ELSE IF vu_data.is_stale
       THEN set_vu_silence(s1, target, "stale", <<"Stale data for", role>>)
       ELSE record_vu_status(
                apply_vu_data(s1, target, vu_data.left_db, vu_data.right_db,
                              u),
                target, "ok", None)

\* animate_vu(); sim: the three values simulate_vu_level() returns when it
\* is called.  The delay of the next frame is returned in args.
animate_vu(s, sim) ==
    LET s1 == IF s.local_vu.has_real_data THEN s
              ELSE IF s.openob_running
              THEN [s EXCEPT
                       !.local_vu.left = smooth_value(@, sim[1], 75),
                       !.local_vu.right = smooth_value(@, sim[2], 75)]
              ELSE [s EXCEPT !.local_vu = decay(@)]
        rl == (s1.receiver_level * DECAY_FACTOR) \div 100
        s2 == IF s1.remote_vu.has_real_data
              THEN [s1 EXCEPT !.receiver_level = average(s1.remote_vu)]
              ELSE IF s1.openob_running
              THEN [s1 EXCEPT
                       !.receiver_level = smooth_value(@, sim[3], 80)]
              ELSE [s1 EXCEPT !.remote_vu = decay(@),
                              !.receiver_level =
                                  IF rl < DECAY_THRESHOLD THEN 0 ELSE rl]
        level == IF max_level(s2.local_vu) >= s2.receiver_level
                 THEN max_level(s2.local_vu) ELSE s2.receiver_level
        simulated == /\ s.openob_running
                     /\ ~s.local_vu.has_real_data \/ ~s.remote_vu.has_real_data
    IN [s2 EXCEPT !.args = <<get_refresh_rate_ms(level)>>,
                  !.vu_frames = IF simulated THEN @ + 1 ELSE @]

\* both targets silenced with the same status
set_vu_silence_both(s, status, detail) ==
    set_vu_silence(set_vu_silence(s, "local", status, detail),
                   "remote", status, detail)

\* update_vu_from_redis() after the test of the link name: the lazy
\* connection and the two fetches
update_vu_connected(s, e) ==
    LET hp == parse_host_port(s.link_config.config_host)
        c == connect(Called(s, "connect"), hp[1], hp[2], e.ping_ok)
        fetches(s1) ==
            fetch_and_apply_vu(
                fetch_and_apply_vu(s1, "tx", "local", e.tx, e.u_local),
                "rx", "remote", e.rx, e.u_remote)
    IN IF is_connected(s) THEN fetches(s)
       ELSE IF ~truthy(hp[1])
       THEN set_vu_silence_both(s, "blocked", "Cannot connect to Redis")
       ELSE IF ~c.success
       THEN set_vu_silence_both([c EXCEPT !.success = TRUE, !.message = ""],
                                "blocked", "Cannot connect to Redis")
       ELSE fetches(c)

\* update_vu_from_redis() without the test of the link name
update_vu_from_redis_any_link(s, e) == update_vu_connected(s, e)

\* update_vu_from_redis(); e: what the tick meets, the answer to the ping
\* of a new client, the hashes of the two roles and the draws of the jitter
update_vu_from_redis(s, e) ==
    IF ~truthy(s.link_config.link_name)
    THEN set_vu_silence_both(s, "no-link", "Link name missing")
    ELSE update_vu_connected(s, e)

\* ========================================================================
\* MainWindow (ui/main_window.py)
\* ========================================================================

\* root.after(delay, handler): one more pending callback of the handler
after(s, timer) == [s EXCEPT !.pending[timer] = @ + 1]

\* the timer queue hands a pending callback of the handler to the handler
fired(s, timer) == [s EXCEPT !.pending[timer] = @ - 1]

\* _cooldown_tick()
cooldown_tick(s) ==
    IF s.cooldown_remaining > 0
    THEN after(tick_cooldown(s), "cooldown")
    ELSE [s EXCEPT !.btn_enabled = TRUE]

\* MainWindow._start_cooldown()
ui_start_cooldown(s) == cooldown_tick(start_cooldown(s, 5))

\* _on_toggle_click()
on_toggle_click(s, way, spawn_ok) ==
    IF s.cooldown_active THEN s
    ELSE IF s.openob_running
    THEN ui_start_cooldown(stop_openob(s, way))
    ELSE start_openob(s, FALSE, spawn_ok)

\* _auto_start_if_enabled()
auto_start_if_enabled(s, spawn_ok) ==
    IF s.auto_started THEN s
    ELSE LET s1 == IF auto_start_var
                   THEN LET s2 == is_openob_running(s) IN
                        IF ~s2.openob_running
                        THEN start_openob(s2, FALSE, spawn_ok)
                        ELSE s2
                   ELSE s
         IN [s1 EXCEPT !.auto_started = TRUE]

\* _update_status_loop(); raised: a widget call of the body raises, after
\* refresh_status() and before the button is updated
update_status_loop(s, raised) ==
    LET s1 == refresh_status(s) IN
    IF raised THEN s1
    ELSE after(check_requirements(
                   [s1 EXCEPT !.btn_enabled = ~s1.cooldown_active]),
               "status")

\* _animate_vu(); raised: a canvas call of the body raises, after the
\* running flag was refreshed
animate_vu_frame(s, raised) ==
    LET s1 == is_openob_running(s) IN
    IF raised THEN s1 ELSE after(s1, "animate")

\* _update_vu_from_redis() that refreshes the worker flag as _animate_vu
\* does
update_vu_from_redis_tick_refreshing(s, raised, e) ==
    is_openob_running(after(update_vu_from_redis(s, e), "telemetry"))

\* _update_vu_from_redis(): the controller fetches the telemetry (e: what
\* the tick meets), the window copies the levels to its widgets, whatever
\* that raises is swallowed, and the next tick is scheduled
update_vu_from_redis_tick(s, raised, e) ==
    after(update_vu_from_redis(s, e), "telemetry")

\* ------------------------------------------------------------------------
\* The controller's own telemetry loop (start_vu_loop, stop_vu_loop,
\* _vu_loop_tick); set_root() has given it the Tk root
\* ------------------------------------------------------------------------

\* root.after(delay, self._vu_loop_tick): a fresh id, kept in _vu_after_id
schedule_vu_tick(s) ==
    LET id == CHOOSE i \in 1..(MaxTimers + 1) : i \notin s.vu_pending IN
    [s EXCEPT !.vu_pending = @ \cup {id}, !.vu_after_id = id]

\* _vu_loop_tick() without the test of _vu_loop_running
vu_loop_tick_unguarded(s, raised, e, sim) ==
    LET s1 == update_vu_from_redis(s, e) IN
    schedule_vu_tick(IF raised THEN s1 ELSE animate_vu(s1, sim))

\* _vu_loop_tick(): the telemetry is fetched (e: what the tick meets), a
\* frame is animated (sim: the simulated levels), and the next tick is
\* scheduled at the end of the body; raised: the body raises after the
\* fetch, and the except clause schedules the next tick
vu_loop_tick(s, raised, e, sim) ==
    IF ~s.vu_loop_running THEN s
    ELSE LET s1 == update_vu_from_redis(s, e) IN
         schedule_vu_tick(IF raised THEN s1 ELSE animate_vu(s1, sim))

\* start_vu_loop()
start_vu_loop(s, raised, e, sim) ==
    vu_loop_tick([s EXCEPT !.vu_loop_running = TRUE], raised, e, sim)

\* stop_vu_loop()
stop_vu_loop(s) ==
    IF s.vu_after_id # 0
    THEN [s EXCEPT !.vu_loop_running = FALSE,
                   !.vu_pending = @ \ {s.vu_after_id},
                   !.vu_after_id = 0]
    ELSE [s EXCEPT !.vu_loop_running = FALSE]

\* ========================================================================
\* State machine
\* ========================================================================

\* the state after MainWindow.__init__: the controller is initialised, the
\* three loops have run once and are scheduled, the auto-start check is
\* scheduled; the redis library may be missing.  The levels of the local
\* target and the record of the last operation are set apart.
InitExceptLast ==
    /\ venv_exists \in BOOLEAN
    /\ script_exists \in BOOLEAN
    /\ fallback_exists \in BOOLEAN
    /\ redis_status \in ServiceStatus
    /\ alive = {}
    /\ process = NoProc
    /\ output_thread = NoProc
    /\ spawned = 0
    /\ thread_pc = [p \in Procs |-> "none"]
    /\ thread_reads = [p \in Procs |-> NoProc]
    /\ openob_running = FALSE
    /\ redis_running = (redis_status = "Running")
    /\ cooldown_active = FALSE
    /\ cooldown_remaining = 0
    /\ args_string = DefaultArgs
    /\ vu_loop_running = FALSE
    /\ vu_after_id = 0
    /\ vu_pending = {}
    /\ btn_enabled = TRUE
    /\ auto_start_var = TRUE
    /\ auto_started = FALSE
    /\ pending = [t \in Timers |-> IF t = "cooldown" THEN 0 ELSE 1]
    /\ written = [p \in Procs |-> 0]
    /\ taken = [p \in Procs |-> 0]
    /\ log_queue = <<>>
    /\ has_redis \in BOOLEAN
    /\ rs_client = NoClient
    /\ rs_host = None
    /\ rs_port = DEFAULT_PORT
    /\ link_config = from_args(args_string)
    /\ remote_vu = VUState
    /\ receiver_level = 0
    /\ vu_diag_state = [target \in {"local", "remote"} |-> None]
    /\ vu_samples = 0
    /\ vu_frames = 0
    /\ disk = "ok"
    /\ saved_config = SavedConfig
    /\ config_file = NoFile

\* no operation has run yet
InitLast ==
    [op |-> "init", success |-> TRUE, message |-> "", calls |-> {},
     signals |-> <<>>, notified |-> <<>>, arg |-> FALSE, logged |-> <<>>,
     args |-> <<>>]

InitExceptLevels == InitExceptLast /\ last = InitLast

\* the levels start at silence
InitAny == InitExceptLevels /\ local_vu = VUState

\* the same with the redis library installed
Init == InitAny /\ has_redis

\* what no operation of the model writes
Frame ==
    UNCHANGED <<venv_exists, script_exists, fallback_exists, has_redis>>

\* the bounds of the model, on the state an operation leaves behind
Bounded(s) ==
    /\ s.spawned <= MaxSpawns
    /\ \A t \in Timers : s.pending[t] <= MaxTimers
    /\ Cardinality(s.vu_pending) <= MaxTimers
    /\ \A p \in Procs : s.written[p] <= MaxLines
    /\ s.vu_samples <= MaxSamples
    /\ s.vu_frames <= MaxFrames

\* an operation of the control thread
Do(s, op) ==
    /\ Bounded(s)
    /\ Commit(s, op)
    /\ Frame
    /\ UNCHANGED <<redis_status, auto_start_var, disk>>

\* what a telemetry tick can meet in state s: a ping is answered or not
\* when a client is created, each role has one of the hashes of the model
\* when hashes are fetched, and the jitter draws two numbers for each fresh
\* sample it is applied to
TickInputs(s) ==
    LET connects == truthy(s.link_config.link_name) /\ ~is_connected(s)
        fetches(ping_ok) ==
            /\ truthy(s.link_config.link_name)
            /\ is_connected(s) \/ (has_redis /\ ping_ok
                                   /\ truthy(s.link_config.config_host))
        draws(ping_ok, data) ==
            LET v == fetch_vu_data([rs_client |-> 1], data) IN
            IF fetches(ping_ok) /\ ~v.is_none /\ ~v.is_stale
            THEN Draws ELSE {<<0, 0>>}
    IN UNION { UNION { UNION {
           { [ping_ok |-> ping_ok, tx |-> tx, rx |-> rx,
              u_local |-> ul, u_remote |-> ur] :
                 ul \in draws(ping_ok, tx), ur \in draws(ping_ok, rx) } :
             rx \in IF fetches(ping_ok) THEN Hashes ELSE {EmptyHash} } :
             tx \in IF fetches(ping_ok) THEN Hashes ELSE {EmptyHash} } :
             ping_ok \in IF connects THEN BOOLEAN ELSE {TRUE} }

\* what a telemetry tick meets when the Redis server cannot be reached: the
\* ping of a new client fails and hgetall() raises on an existing one
Unreachable ==
    [ping_ok |-> FALSE,
     tx |-> [EmptyHash EXCEPT !.raises = TRUE],
     rx |-> [EmptyHash EXCEPT !.raises = TRUE],
     u_local |-> <<0, 0>>, u_remote |-> <<0, 0>>]

\* what a telemetry tick meets when the Redis server can be reached
Reachable(s) == {e \in TickInputs(s) : e.ping_ok}

\* what a tick of the periodic loops meets: a Redis server that holds no
\* record of the link, reachable or not
QuietInputs(s) ==
    {e \in TickInputs(s) : e.tx = EmptyHash /\ e.rx = EmptyHash}

\* the values simulate_vu_level() returns to a frame: it is called only
\* while the worker is running
SimInputs(s) ==
    IF s.openob_running THEN SimLevels \X SimLevels \X SimLevels
    ELSE {<<0, 0, 0>>}

\* the hashes of the loudest and the quietest samples: no record, both
\* channels above full scale, both below the floor of the meter, and one
\* channel at each end
LevelHashes ==
    {EmptyHash,
     [FreshHash EXCEPT !.left_db = Num(5), !.right_db = Num(5)],
     [FreshHash EXCEPT !.left_db = Num(MIN_DB - 5),
                       !.right_db = Num(MIN_DB - 5)],
     [FreshHash EXCEPT !.left_db = Num(MIN_DB - 5), !.right_db = Num(0)]}

\* what a telemetry tick meets when the record of each role holds one of
\* these samples
LevelInputs ==
    {[ping_ok |-> TRUE, tx |-> tx, rx |-> rx, u_local |-> u, u_remote |-> u] :
         tx \in LevelHashes, rx \in LevelHashes, u \in Draws}

\* the least and the greatest values of simulate_vu_level(seed, 0.85) and
\* of simulate_vu_level(1.0, 0.8), in 1/Scale
SimExtremes(s) ==
    IF s.openob_running THEN {0, Scale} \X {0, Scale} \X {0, 9500}
    ELSE {<<0, 0, 0>>}

\* argument strings saved to the configuration file: the default, a
\* transmitter on another host with two options, a transmitter without a
\* peer address, a receiver with a backend and a device, a receiver with
\* the options -e, -r and -j, and a string of two words
StoreArgs ==
    {DefaultArgs,
     <<"10.0.0.2", "studio", "liaison", "tx", "10.0.0.9",
       "-e", "opus", "-a", "alsa">>,
     <<"127.0.0.1", "emetteur", "transmission", "tx", "-e", "opus">>,
     <<"10.0.0.2:6380", "recepteur", "transmission", "rx",
       "-a", "alsa", "-d", "hw:0">>,
     <<"10.0.0.2:6380", "recepteur", "transmission", "rx",
       "-e", "opus", "-r", "44100", "-j", "40">>,
     <<"127.0.0.1", "emetteur">>}

\* the program state after MainWindow.__init__, as a record
Fresh ==
    [process |-> NoProc, output_thread |-> NoProc, spawned |-> 0,
     alive |-> {}, thread_pc |-> [p \in Procs |-> "none"],
     thread_reads |-> [p \in Procs |-> NoProc],
     openob_running |-> FALSE, redis_running |-> TRUE,
     cooldown_active |-> FALSE, cooldown_remaining |-> 0,
     vu_loop_running |-> FALSE, vu_after_id |-> 0, vu_pending |-> {},
     btn_enabled |-> TRUE, auto_started |-> FALSE,
     pending |-> [t \in Timers |-> IF t = "cooldown" THEN 0 ELSE 1],
     written |-> [p \in Procs |-> 0], taken |-> [p \in Procs |-> 0],
     log_queue |-> <<>>, args_string |-> DefaultArgs,
     rs_client |-> NoClient, rs_host |-> None, rs_port |-> DEFAULT_PORT,
     link_config |-> from_args(DefaultArgs), local_vu |-> VUState,
     remote_vu |-> VUState, receiver_level |-> 0,
     vu_diag_state |-> [target \in {"local", "remote"} |-> None],
     vu_samples |-> 0, vu_frames |-> 0,
     saved_config |-> SavedConfig, config_file |-> NoFile,
     success |-> TRUE, message |-> "", calls |-> {}, signals |-> <<>>,
     notified |-> <<>>, arg |-> FALSE, logged |-> <<>>, args |-> <<>>]

\* --- the environment ---

\* a worker process exits on its own
WorkerExits ==
    \E p \in alive :
        Do([Cur EXCEPT !.alive = @ \ {p}], "worker_exits")

\* the Redis service changes status outside the program
ServiceChanges ==
    \E st \in ServiceStatus \ {redis_status} :
        /\ redis_status' = st
        /\ Commit(Cur, "service_changes")
        /\ Frame
        /\ UNCHANGED <<auto_start_var, disk>>

\* --- the process manager called directly ---

PMStart ==
    \E args \in {DefaultArgs, <<>>}, use_fallback \in BOOLEAN,
       spawn_ok \in BOOLEAN :
        Do(start(Cur, args, use_fallback, spawn_ok), "pm.start")

\* args keeps how the stop of a running worker goes
PMStop ==
    \E way \in IF is_running(Cur) THEN StopWays ELSE {"not_running"} :
        Do(stop([Cur EXCEPT !.args = <<way>>], way), "pm.stop")

ReaderCheck ==
    \E t \in Procs :
        /\ thread_pc[t] = "started"
        /\ Do(stream_output_check(Cur, t), "reader")

ReaderOpen ==
    \E t \in Procs :
        /\ thread_pc[t] = "checked"
        /\ Do(stream_output_open(Cur, t), "reader")

\* a live worker writes a line to its stdout
WorkerWrites ==
    \E p \in alive :
        Do([Cur EXCEPT !.written[p] = @ + 1], "worker_writes")

ReaderLine ==
    \E t \in Procs :
        /\ thread_pc[t] = "reading"
        /\ taken[thread_reads[t]] < written[thread_reads[t]]
        /\ Do(stream_output_line(Cur, t), "reader_line")

AppendLog ==
    /\ log_queue # <<>>
    /\ Do(append_log(Cur), "append_log")

ReaderEof ==
    \E t \in Procs :
        /\ thread_pc[t] = "reading"
        /\ thread_reads[t] \notin alive
        /\ taken[thread_reads[t]] = written[thread_reads[t]]
        /\ Do(stream_output_eof(Cur, t), "reader")

\* --- the main window: the operator and the timer queue ---

ToggleClick ==
    /\ btn_enabled
    /\ \E way \in StopWays, spawn_ok \in BOOLEAN :
           Do(on_toggle_click(Cur, way, spawn_ok), "on_toggle_click")

\* the operator ticks or unticks the auto-start box (_on_auto_start_changed)
AutoStartChanged ==
    /\ auto_start_var' = ~auto_start_var
    /\ Commit(set_auto_start(Cur, ~auto_start_var), "on_auto_start_changed")
    /\ Frame
    /\ UNCHANGED <<redis_status, disk>>

CooldownTick ==
    /\ pending["cooldown"] > 0
    /\ Do(cooldown_tick(fired(Cur, "cooldown")), "cooldown_tick")

AutoStart ==
    /\ pending["auto_start"] > 0
    /\ \E spawn_ok \in BOOLEAN :
           Do(auto_start_if_enabled(fired(Cur, "auto_start"), spawn_ok),
              "auto_start_if_enabled")

StatusLoop ==
    /\ pending["status"] > 0
    /\ \E raised \in BOOLEAN :
           Do(update_status_loop(fired(Cur, "status"), raised),
              "update_status_loop")

AnimateVu ==
    /\ pending["animate"] > 0
    /\ \E raised \in BOOLEAN :
           Do(animate_vu_frame(fired(Cur, "animate"), raised), "animate_vu")

TelemetryTick ==
    /\ pending["telemetry"] > 0
    /\ \E raised \in BOOLEAN, e \in QuietInputs(Cur) :
           Do(update_vu_from_redis_tick(fired(Cur, "telemetry"), raised, e),
              "update_vu_from_redis_tick")

\* --- the controller's public operations called directly ---

ToggleOpenob ==
    \E way \in StopWays, spawn_ok \in BOOLEAN :
        Do(toggle_openob(Cur, way, spawn_ok), "toggle_openob")

StartOpenob ==
    \E use_fallback \in BOOLEAN, spawn_ok \in BOOLEAN :
        Do(start_openob([Cur EXCEPT !.arg = use_fallback], use_fallback,
                        spawn_ok), "start_openob")

StopOpenob ==
    \E way \in StopWays : Do(stop_openob(Cur, way), "stop_openob")

StartCooldown ==
    \E seconds \in 0..COOLDOWN_SECONDS :
        Do(start_cooldown(Cur, seconds), "start_cooldown")

TickCooldown == Do(tick_cooldown(Cur), "tick_cooldown")

CheckRequirements == Do(check_requirements(Cur), "check_requirements")

IsOpenobRunning == Do(is_openob_running(Cur), "is_openob_running")

RefreshStatus == Do(refresh_status(Cur), "refresh_status")

StartVuLoop ==
    \E raised \in BOOLEAN, e \in QuietInputs(Cur), sim \in SimInputs(Cur) :
        Do(start_vu_loop(Cur, raised, e, sim), "start_vu_loop")

StopVuLoop == Do(stop_vu_loop(Cur), "stop_vu_loop")

VuLoopTick ==
    \E id \in vu_pending, raised \in BOOLEAN, e \in QuietInputs(Cur),
       sim \in SimInputs(Cur) :
        Do(vu_loop_tick([Cur EXCEPT !.vu_pending = @ \ {id}], raised, e, sim),
           "vu_loop_tick")

\* --- the telemetry client called directly ---

RSConnect ==
    \E host \in Hosts, port \in Ports, ping_ok \in BOOLEAN :
        Do(connect([Cur EXCEPT !.args = <<host, port>>], host, port, ping_ok),
           "rs.connect")

RSDisconnect == Do(disconnect(Cur), "rs.disconnect")

\* fetch_vu_data() does not write the state; the hash it read and the
\* VUData it returned are kept in args
RSFetch ==
    \E data \in AllHashes :
        Do([Cur EXCEPT !.args = <<data, fetch_vu_data(Cur, data)>>],
           "rs.fetch_vu_data")

\* --- the controller's telemetry ---

SetArgs ==
    \E args \in ArgStrings :
        Do(set_args([Cur EXCEPT !.args = args], args), "set_args")

UpdateVuFromRedis ==
    \E e \in TickInputs(Cur) :
        Do(update_vu_from_redis([Cur EXCEPT !.args = <<e.tx, e.rx>>], e),
           "update_vu_from_redis")

\* a telemetry tick with the Redis server reachable or not; args keeps
\* which
TelemetryPoll ==
    \E reachable \in BOOLEAN :
        \E e \in IF reachable THEN Reachable(Cur) ELSE {Unreachable} :
            Do(update_vu_from_redis([Cur EXCEPT !.args = <<reachable>>], e),
               "telemetry_poll")

\* the timer queue runs the pending telemetry tick and then the pending
\* status tick, with nothing in between; args keeps what the telemetry
\* tick meets
TelemetryThenStatus ==
    /\ last.op = "init"
    /\ \E e \in TickInputs(Cur) :
           Do(update_status_loop(
                  fired(update_vu_from_redis_tick(
                            fired([Cur EXCEPT !.args = <<e>>], "telemetry"),
                            FALSE, e),
                        "status"),
                  FALSE),
              "telemetry_then_status")

\* a telemetry tick of the controller; args keeps everything the tick meets
RoleTick ==
    \E e \in TickInputs(Cur) :
        Do(update_vu_from_redis([Cur EXCEPT !.args = <<e>>], e), "role_tick")

\* --- the arguments field and the settings dialog ---

\* the operator types an argument string
EditArgs ==
    \E args \in ArgInputs :
        Do(set_args([Cur EXCEPT !.args = <<args>>], args), "set_args")

\* the settings dialog is saved with the values it was opened with: the
\* configuration is serialised with to_args() and the string handed to
\* set_args(); args keeps the string of before
SaveSettings ==
    Do(set_args([Cur EXCEPT !.args = <<args_string>>], to_args(link_config)),
       "save_settings")

\* --- the animation ---

\* a frame of the controller's animation
AnimateFrame ==
    \E sim \in SimInputs(Cur) : Do(animate_vu(Cur, sim), "animate_vu_frame")

\* VUState.decay() applied to the levels of the local target
VuDecay == Do([Cur EXCEPT !.local_vu = decay(@)], "vu.decay")

\* --- the level functions called directly ---

\* db_to_normalized() applied to the two decibel values the run was given;
\* args keeps the inputs and the results
DbToNormalized ==
    /\ last.op = "init"
    /\ LET a == last.args[1]
           b == last.args[2]
       IN Do([Cur EXCEPT !.args = <<a, db_to_normalized(a),
                                    b, db_to_normalized(b)>>],
             "db_to_normalized")

\* --- the levels at their extremes ---

\* a telemetry tick that meets the loudest and the quietest samples
LevelTick ==
    \E e \in LevelInputs :
        Do(update_vu_from_redis(Cur, e), "level_tick")

\* a frame of the animation with simulate_vu_level() at its extremes; the
\* frames of this specification are counted whether they simulate or decay
LevelFrame ==
    \E sim \in SimExtremes(Cur) :
        Do([animate_vu(Cur, sim) EXCEPT !.vu_frames = Cur.vu_frames + 1],
           "level_frame")

\* the worker is launched
LevelStart == Do(start_openob(Cur, FALSE, TRUE), "start_openob")

\* --- the saved configuration ---

\* update_from_args(args, mode) called with any string and either mode;
\* args keeps both
UpdateFromArgs ==
    /\ last.op = "init"
    /\ \E args \in ArgInputs, mode \in {"tx", "rx"} :
           Do([Cur EXCEPT
                   !.saved_config = update_from_args(@, args, mode),
                   !.args = <<args, mode>>],
              "update_from_args")

\* the operator saves an argument string; args keeps the string
StoreSetArgs ==
    \E args \in StoreArgs :
        Do(set_args([Cur EXCEPT !.args = <<args>>], args), "set_args")

\* ConfigStorageService.save() called directly
StoreSave == Do(save(Cur), "save")

\* set_auto_start(enabled) called with either value; args keeps it
SetAutoStart ==
    \E enabled \in BOOLEAN :
        /\ auto_start_var' = enabled
        /\ Commit(set_auto_start([Cur EXCEPT !.args = <<enabled>>], enabled),
                  "set_auto_start")
        /\ Frame
        /\ UNCHANGED <<redis_status, disk>>

\* the directory of the file becomes writable or not, outside the program
DiskChanges ==
    \E way \in SaveWays \ {disk} :
        /\ disk' = way
        /\ Commit(Cur, "disk_changes")
        /\ Frame
        /\ UNCHANGED <<redis_status, auto_start_var>>

\* the program is closed and started again: AppController.__init__ loads
\* the file into a new SavedConfig and takes the argument string from it,
\* initialize() parses the string, and the box shows the saved flag
Restart ==
    LET s == load([Fresh EXCEPT !.config_file = config_file])
        args == get_current_args(s.saved_config)
    IN /\ auto_start_var' = s.saved_config.auto_start
       /\ Commit([s EXCEPT !.args_string = args,
                           !.link_config = from_args(args)], "restart")
       /\ Frame
       /\ UNCHANGED <<redis_status, disk>>

\* --- the specifications ---

NextPM ==
    \/ PMStart
    \/ PMStop
    \/ WorkerExits
    \/ ReaderCheck
    \/ ReaderOpen
    \/ ReaderEof

NextUI ==
    \/ ToggleClick
    \/ AutoStartChanged
    \/ CooldownTick
    \/ AutoStart
    \/ StatusLoop
    \/ WorkerExits
    \/ ServiceChanges

NextLoops ==
    \/ StatusLoop
    \/ AnimateVu
    \/ TelemetryTick
    \/ StartVuLoop
    \/ StopVuLoop
    \/ VuLoopTick
    \/ ServiceChanges

Next ==
    \/ ToggleOpenob
    \/ StartOpenob
    \/ StopOpenob
    \/ StartCooldown
    \/ TickCooldown
    \/ CheckRequirements
    \/ RefreshStatus
    \/ IsOpenobRunning
    \/ WorkerExits
    \/ ServiceChanges

NextOut ==
    \/ PMStart
    \/ PMStop
    \/ WorkerWrites
    \/ ReaderCheck
    \/ ReaderOpen
    \/ ReaderLine
    \/ ReaderEof
    \/ AppendLog

NextRedis ==
    \/ RSConnect
    \/ RSDisconnect
    \/ RSFetch

NextTel ==
    \/ SetArgs
    \/ UpdateVuFromRedis

\* an installation with every file in place and the Redis service running
InitInstalled ==
    /\ Init
    /\ venv_exists /\ script_exists /\ fallback_exists
    /\ redis_status = "Running"

\* the worker's output on its way to the log widget
SpecOut == InitInstalled /\ [][NextOut]_vars

\* the telemetry client and the controller's telemetry tick, with or without
\* the redis library
InitTel ==
    /\ InitAny
    /\ venv_exists /\ script_exists /\ fallback_exists
    /\ redis_status = "Running"

SpecTel == InitTel /\ [][NextTel]_vars

NextAnim ==
    \/ StartOpenob
    \/ StopOpenob
    \/ AnimateFrame

\* the controller's animation while the worker is started and stopped
SpecAnim == InitInstalled /\ [][NextAnim]_vars

\* VUState.decay() applied again and again, from every level on one channel
\* with silence or full scale on the other
InitDecay ==
    /\ InitExceptLevels
    /\ venv_exists /\ script_exists /\ fallback_exists
    /\ redis_status = "Running" /\ has_redis
    /\ \E l \in 0..Scale, r \in {0, Scale}, swap \in BOOLEAN :
           local_vu = [left |-> IF swap THEN r ELSE l,
                       right |-> IF swap THEN l ELSE r,
                       has_real_data |-> FALSE]

SpecDecay == InitDecay /\ [][VuDecay]_vars

NextArgs ==
    \/ EditArgs
    \/ SaveSettings

\* argument strings parsed and serialised again
SpecArgs == InitInstalled /\ [][NextArgs]_vars

\* a run is given two decibel values
InitDb ==
    /\ InitExceptLast
    /\ local_vu = VUState
    /\ venv_exists /\ script_exists /\ fallback_exists
    /\ redis_status = "Running" /\ has_redis
    /\ \E a \in DbInputs, b \in DbInputs :
           last = [InitLast EXCEPT !.args = <<a, b>>]

\* db_to_normalized() on pairs of decibel values
SpecDb == InitDb /\ [][DbToNormalized]_vars

NextLink ==
    \/ SetArgs
    \/ TelemetryPoll

\* telemetry ticks while the Redis server comes and goes
SpecLink == InitInstalled /\ [][NextLink]_vars

\* the states the controller is in after the operator has set the
\* arguments, one telemetry tick has run or none, a worker has been
\* launched or not and has exited or not, a cooldown has been started or
\* not, and the status flags were refreshed at some time before: the
\* worker flag is true from the launch on until a refresh finds the worker
\* gone, the service flag is the status the service had at that time
FrameStates ==
    LET configured == {set_args(Fresh, a) : a \in ArgStrings}
        polled == configured \cup
                  UNION {{update_vu_from_redis(s, e) : e \in TickInputs(s)} :
                            s \in configured}
        launched == polled \cup
                    UNION {{start_launch(s, s.args_string, FALSE, TRUE),
                            [start_launch(s, s.args_string, FALSE, TRUE)
                                EXCEPT !.alive = {}]} : s \in polled}
        cooling == launched \cup
                   {start_cooldown(s, k) :
                       s \in launched, k \in 1..COOLDOWN_SECONDS}
        flags(s) == IF s.process = NoProc THEN {FALSE}
                    ELSE IF is_running(s) THEN {TRUE} ELSE BOOLEAN
    IN UNION {{[s EXCEPT !.openob_running = o, !.redis_running = r,
                         !.success = TRUE, !.message = "", !.calls = {},
                         !.logged = <<>>] :
                  o \in flags(s), r \in BOOLEAN} : s \in cooling}

\* the variables hold the state s
Holds(s) ==
    /\ process = s.process
    /\ output_thread = s.output_thread
    /\ spawned = s.spawned
    /\ alive = s.alive
    /\ thread_pc = s.thread_pc
    /\ thread_reads = s.thread_reads
    /\ openob_running = s.openob_running
    /\ redis_running = s.redis_running
    /\ cooldown_active = s.cooldown_active
    /\ cooldown_remaining = s.cooldown_remaining
    /\ vu_loop_running = s.vu_loop_running
    /\ vu_after_id = s.vu_after_id
    /\ vu_pending = s.vu_pending
    /\ btn_enabled = s.btn_enabled
    /\ auto_started = s.auto_started
    /\ pending = s.pending
    /\ written = s.written
    /\ taken = s.taken
    /\ log_queue = s.log_queue
    /\ args_string = s.args_string
    /\ rs_client = s.rs_client
    /\ rs_host = s.rs_host
    /\ rs_port = s.rs_port
    /\ link_config = s.link_config
    /\ local_vu = s.local_vu
    /\ remote_vu = s.remote_vu
    /\ receiver_level = s.receiver_level
    /\ vu_diag_state = s.vu_diag_state
    /\ vu_samples = s.vu_samples
    /\ vu_frames = s.vu_frames
    /\ saved_config = s.saved_config
    /\ config_file = s.config_file
    /\ last = InitLast

\* a run starts in one of these states, with the service in any status
InitFrame ==
    /\ venv_exists = TRUE /\ script_exists = TRUE /\ fallback_exists = TRUE
    /\ disk = "ok"
    /\ has_redis = TRUE
    /\ auto_start_var = TRUE
    /\ redis_status \in ServiceStatus
    /\ \E s \in FrameStates : Holds(s)

NextFrame ==
    \/ CheckRequirements
    \/ RefreshStatus

\* the status checks in the states the arguments, the telemetry, the
\* worker and the cooldown bring about
SpecFrame == InitFrame /\ [][NextFrame]_vars

\* the two ticks one after the other, from the same states
SpecOrder == InitFrame /\ [][TelemetryThenStatus]_vars

NextLevels ==
    \/ LevelStart
    \/ LevelTick
    \/ LevelFrame

\* telemetry ticks and animation frames at the extremes of their inputs
SpecLevels == InitInstalled /\ [][NextLevels]_vars

NextRoles ==
    \/ SetArgs
    \/ RoleTick

\* telemetry ticks under every configured link role
SpecRoles == InitTel /\ [][NextRoles]_vars

\* the states after the operator has set the arguments at most twice and
\* has unticked the auto-start box or not
StoredStates ==
    LET once == {Fresh} \cup {set_args(Fresh, a) : a \in StoreArgs}
        twice == once \cup UNION {{set_args(s, a) : a \in StoreArgs} :
                                      s \in once}
    IN twice \cup {set_auto_start(s, FALSE) : s \in twice}

\* a run starts in one of these states
InitStored ==
    /\ venv_exists = TRUE /\ script_exists = TRUE /\ fallback_exists = TRUE
    /\ disk = "ok"
    /\ has_redis = TRUE
    /\ redis_status = "Running"
    /\ \E s \in StoredStates :
           /\ Holds(s)
           /\ auto_start_var = s.saved_config.auto_start

\* update_from_args() on the records these states hold
SpecUpdate == InitStored /\ [][UpdateFromArgs]_vars

NextStore ==
    \/ StoreSetArgs
    \/ StoreSave
    \/ SetAutoStart
    \/ DiskChanges
    \/ Restart

\* the saved configuration while the operator changes it and the program
\* is restarted
SpecStore == InitInstalled /\ [][NextStore]_vars

\* the telemetry client called directly
SpecRedis == InitTel /\ [][NextRedis]_vars

\* the process manager driven directly, with its reader threads
SpecPM == Init /\ [][NextPM]_vars

\* the main window: the operator's clicks and the timer queue
SpecUI == Init /\ [][NextUI]_vars

\* the periodic loops of the window and of the controller
SpecLoops == Init /\ [][NextLoops]_vars

\* the controller's public operations called directly
Spec == Init /\ [][Next]_vars

\* ========================================================================
\* Properties
\* ========================================================================

\* C1: a call of toggle_openob() while state.cooldown_active is true returns
\* success=false, calls no method of the process manager (is_running, start,
\* stop), and leaves the worker-running flag, the cooldown fields and the
\* process manager as they were.
C1_ToggleRefusedInCooldown ==
    [][(last'.op = "toggle_openob" /\ cooldown_active)
          => (/\ ~last'.success
              /\ last'.message = "Cooldown active"
              /\ last'.calls = {}
              /\ UNCHANGED <<openob_running, cooldown_active,
                             cooldown_remaining, pmVars>>)]_vars

C1_Witness ==
    /\ last.op = "toggle_openob"
    /\ ~last.success
    /\ last.message = "Cooldown active"
    /\ cooldown_active
    /\ cooldown_remaining = COOLDOWN_SECONDS
    /\ ~is_running(Cur)

\* C2 (as claimed): over clicks on the toggle button, the auto-start
\* callback, cooldown ticks and status ticks, no step launches a worker
\* process while state.cooldown_active is true.
C2_NoLaunchInCooldown ==
    [][spawned' # spawned => ~cooldown_active]_vars

\* C3: when toggle_openob() stops a running worker with success, the
\* cooldown is active with 5 seconds remaining; a tick_cooldown() during a
\* cooldown takes exactly one second off, and the tick that reaches 0 ends
\* the cooldown; a toggle_openob() outside a cooldown is not refused with
\* 'Cooldown active'.
C3_CooldownCountsDown ==
    [][/\ (last'.op = "toggle_openob" /\ "stop" \in last'.calls
             /\ last'.success)
            => (cooldown_active' /\ cooldown_remaining' = 5)
       /\ (last'.op = "tick_cooldown" /\ cooldown_active)
            => (/\ cooldown_remaining' = cooldown_remaining - 1
                /\ cooldown_active' = (cooldown_remaining' > 0)
                /\ last'.success = cooldown_active')
       /\ (last'.op = "toggle_openob" /\ ~cooldown_active)
            => last'.message # "Cooldown active"]_vars

C3_Witness ==
    /\ last.op = "tick_cooldown"
    /\ ~last.success
    /\ ~cooldown_active
    /\ cooldown_remaining = 0
    /\ spawned >= 1
    /\ ~openob_running

\* C4 (as claimed): at most one cooldown-tick callback is pending in the
\* timer queue at any time.
C4_OneCooldownTickPending == pending["cooldown"] <= 1

\* C5: stop_openob() called when the worker is not running returns
\* success=false, leaves every field of the state and of the process
\* manager as it was, notifies no status change and sends no signal.
C5_StopWhenNotRunning ==
    [][(last'.op = "stop_openob" /\ ~is_running(Cur))
          => (/\ ~last'.success
              /\ last'.notified = <<>>
              /\ last'.signals = <<>>
              /\ "stop" \notin last'.calls
              /\ UNCHANGED <<openob_running, redis_running, cdVars, pmVars,
                             args_string>>)]_vars

C5_Witness ==
    /\ last.op = "stop_openob"
    /\ ~last.success
    /\ last.message = "OpenOB not running"
    /\ openob_running
    /\ ~is_running(Cur)

\* C6 (as claimed): start_openob() invokes the process manager's start, or
\* changes state.openob_running, only if the service status is Running and
\* can_start() is true.
C6_StartNeedsCanStart ==
    [][last'.op = "start_openob"
          => \/ (redis_status = "Running" /\ can_start)
             \/ ("start" \notin last'.calls
                 /\ openob_running' = openob_running)]_vars

\* C6 (amended): start_openob() invokes the process manager's start, or
\* changes state.openob_running, only if the service status is Running and
\* either can_start() is true or the caller passed use_fallback=true; and
\* state.openob_running only becomes true when the start succeeded.
C6_StartNeedsCanStartOrFallback ==
    [][last'.op = "start_openob"
          => /\ \/ (redis_status = "Running" /\ (can_start \/ last'.arg))
                \/ ("start" \notin last'.calls
                    /\ openob_running' = openob_running)
             /\ (openob_running' /\ ~openob_running) => last'.success]_vars

C6_Witness ==
    /\ last.op = "start_openob"
    /\ last.success
    /\ last.arg
    /\ ~can_start
    /\ openob_running
    /\ is_running(Cur)

C8_StopClearsHandle ==
    [][(last'.op = "pm.stop" /\ is_running(Cur))
          => (process' = NoProc
              /\ ~(process' # NoProc /\ process' \in alive'))]_vars

C8_Witness ==
    /\ last.op = "pm.stop"
    /\ ~last.success
    /\ last.message = "stop error"
    /\ process = NoProc
    /\ spawned >= 1

\* C10 (as claimed): a reader thread only ever reads the output of the
\* process it was created for.
C10_ReaderReadsOwnProcess ==
    \A t \in Procs : thread_reads[t] \in {NoProc, t}

\* C10: the reader thread created for the first worker reads the output of
\* the second
C10_ReaderReadsLaterProcess ==
    \E t \in Procs :
        thread_pc[t] = "reading" /\ thread_reads[t] # t

\* C9 (as claimed): the status loop, the animation loop, the window's
\* telemetry loop and the controller's telemetry loop while running always
\* have a next tick pending.
C9_LoopsStayArmed ==
    /\ pending["status"] >= 1
    /\ pending["animate"] >= 1
    /\ pending["telemetry"] >= 1
    /\ vu_loop_running => vu_after_id \in vu_pending

\* C11: a step of a reader thread that reads an output line leaves the
\* controller state, the process handle and the reader handle untouched; it
\* hands the line to _log once (UI only) and schedules exactly one
\* append_log callback for it, so no line is ever queued twice and every
\* line taken from a worker's stdout has been queued once.
C11_ReaderOnlyForwards ==
    [][last'.op = "reader_line"
          => /\ UNCHANGED <<process, output_thread, spawned, alive,
                            openob_running, redis_running, cdVars,
                            args_string, vu_loop_running>>
             /\ Len(last'.logged) = 1
             /\ log_queue' = Append(log_queue, last'.logged[1][1])
             /\ \A i, j \in 1..Len(log_queue') :
                    log_queue'[i] = log_queue'[j] => i = j
             /\ \E q \in Procs :
                    /\ taken' = [taken EXCEPT ![q] = @ + 1]
                    /\ last'.logged[1][1] = <<"OBBROADCAST", q, taken'[q]>>]_vars

C11_Witness ==
    /\ last.op = "reader_line"
    /\ Len(log_queue) = 2
    /\ \E q \in Procs : taken[q] = MaxLines

\* C12: RedisService.connect(host, port) called with the host and port of
\* the live connection returns true without creating a client and without
\* changing the connection; and whenever connect returns false, whatever
\* the connection was before, the service is disconnected afterwards.
C12_ConnectIdempotentAllOrNothing ==
    [][last'.op = "rs.connect"
          => /\ (/\ is_connected(Cur)
                 /\ rs_host = last'.args[1]
                 /\ rs_port = last'.args[2])
                => /\ last'.success
                   /\ "StrictRedis" \notin last'.calls
                   /\ UNCHANGED <<rs_client, rs_host, rs_port>>
             /\ ~last'.success => rs_client' = NoClient
             /\ last'.success => /\ rs_client' # NoClient
                                 /\ rs_host' = last'.args[1]
                                 /\ rs_port' = last'.args[2]]_vars

\* a connect to another port failed while a connection was live, and left
\* the service disconnected
C12_Witness ==
    /\ last.op = "rs.connect"
    /\ ~last.success
    /\ "StrictRedis" \in last.calls
    /\ rs_client = NoClient
    /\ rs_host # None
    /\ last.args[2] # rs_port

\* C13: a telemetry tick taken while the link configuration has no link
\* name sets the diagnostic status of both targets to 'no-link' and
\* has_real_data of both targets to false, and does not contact the
\* telemetry backend: no connect, no new client, no fetch, the connection
\* and the levels left as they were.
C13_NoLinkNameNoBackend ==
    [][(last'.op = "update_vu_from_redis" /\ ~truthy(link_config.link_name))
          => /\ vu_diag_state' = [target \in {"local", "remote"} |-> "no-link"]
             /\ ~local_vu'.has_real_data
             /\ ~remote_vu'.has_real_data
             /\ last'.calls = {}
             /\ UNCHANGED <<rs_client, rs_host, rs_port, vu_samples>>
             /\ local_vu'.left = local_vu.left
             /\ local_vu'.right = local_vu.right
             /\ remote_vu'.left = remote_vu.left
             /\ remote_vu'.right = remote_vu.right]_vars

\* a tick found no link name while the connection was live and the local
\* target had real data, and logged the change of both statuses
C13_Witness ==
    /\ last.op = "update_vu_from_redis"
    /\ ~truthy(link_config.link_name)
    /\ is_connected(Cur)
    /\ local_vu.left > 0
    /\ vu_diag_state["local"] = "no-link"
    /\ Len(last.logged) = 2

\* the level fields of a hash are valid: left_db is a number and right_db
\* is a number or missing, or the combined field alone holds numbers
ValidLevels(data) ==
    \/ data.left_db.kind = "num" /\ data.right_db.kind \in {"num", "absent"}
    \/ /\ data.left_db.kind = "absent" /\ data.right_db.kind = "absent"
       /\ data.level # <<>>

\* the update timestamp of a hash, updated_ts or else ts, is a number more
\* than STALE_THRESHOLD seconds behind the clock
OldStamp(data) ==
    \/ data.updated_ts.kind = "num" /\ data.updated_ts.val > STALE_THRESHOLD
    \/ /\ data.updated_ts.kind = "absent"
       /\ data.ts.kind = "num" /\ data.ts.val > STALE_THRESHOLD

\* what a tick that fetched hash data for a target must leave behind when
\* the sample counts as no data with the given status
Demoted(target, status, vu, vu_after, diag_after) ==
    /\ ~vu_after.has_real_data
    /\ vu_after.left = vu.left
    /\ vu_after.right = vu.right
    /\ diag_after[target] = status

\* C14: a record with valid level fields whose update timestamp is more
\* than 5 seconds old is returned by fetch_vu_data flagged stale, whatever
\* the levels are; and a telemetry tick that fetches such a record for a
\* target leaves the target with has_real_data false, status 'stale' and
\* its levels as they were.
C14_OldSampleIsStale ==
    /\ [](\A data \in AllHashes :
             (~data.raises /\ ValidLevels(data) /\ OldStamp(data))
                 => LET v == fetch_vu_data([rs_client |-> 1], data)
                    IN ~v.is_none /\ v.is_stale)
    /\ [][(last'.op = "update_vu_from_redis"
            /\ "fetch_vu_data" \in last'.calls)
             => /\ (ValidLevels(last'.args[1]) /\ OldStamp(last'.args[1]))
                    => Demoted("local", "stale", local_vu, local_vu',
                               vu_diag_state')
                /\ (ValidLevels(last'.args[2]) /\ OldStamp(last'.args[2]))
                    => Demoted("remote", "stale", remote_vu, remote_vu',
                               vu_diag_state')]_vars

\* a tick fetched an old record for the local target, which had levels
\* from an earlier sample, and logged the change of status
C14_Witness ==
    /\ last.op = "update_vu_from_redis"
    /\ "fetch_vu_data" \in last.calls
    /\ OldStamp(last.args[1]) /\ ValidLevels(last.args[1])
    /\ local_vu.left > 0
    /\ ~local_vu.has_real_data
    /\ \E i \in 1..Len(last.logged) :
           last.logged[i][1][1] = "local" /\ last.logged[i][1][2] = "stale"

\* a level field of a hash holds text that is not a number
NonNumeric(data) ==
    data.left_db.kind = "text" \/ data.right_db.kind = "text"

\* C15: a telemetry tick with a link name and a live connection demotes a
\* target to has_real_data = false with status 'stale' when the sample is
\* stale, 'no-data' when the record is missing and 'invalid-data' when a
\* level field of the record is not a number.
C15_DiagnosticPerCause ==
    [][(last'.op = "update_vu_from_redis"
        /\ "fetch_vu_data" \in last'.calls)
          => \A target \in {"local", "remote"} :
                 LET data == last'.args[IF target = "local" THEN 1 ELSE 2]
                     vu == IF target = "local" THEN local_vu ELSE remote_vu
                     vu_after == IF target = "local" THEN local_vu'
                                 ELSE remote_vu'
                 IN /\ (ValidLevels(data) /\ OldStamp(data))
                        => Demoted(target, "stale", vu, vu_after,
                                   vu_diag_state')
                    /\ data = EmptyHash
                        => Demoted(target, "no-data", vu, vu_after,
                                   vu_diag_state')
                    /\ NonNumeric(data)
                        => Demoted(target, "invalid-data", vu, vu_after,
                                   vu_diag_state')]_vars

\* the status messages a tick handed to _log for a target
LoggedFor(logged, target) ==
    {i \in 1..Len(logged) : logged[i][1][1] = target}

\* C16: on every telemetry tick and for each target, a status line is
\* logged exactly when the status the tick computes for the target differs
\* from the status recorded for it before the tick, and the line names the
\* new status; when the two are equal nothing is logged for the target and
\* its entry of the diagnostic map stays as it was.
C16_StatusLoggedOnTransition ==
    [][last'.op = "update_vu_from_redis"
          => \A target \in {"local", "remote"} :
                 LET data == last'.args[IF target = "local" THEN 1 ELSE 2]
                     v == fetch_vu_data([rs_client |-> 1], data)
                     status ==
                         IF ~truthy(link_config.link_name) THEN "no-link"
                         ELSE IF "fetch_vu_data" \notin last'.calls
                         THEN "blocked"
                         ELSE IF v.is_none THEN "no-data"
                         ELSE IF v.is_stale THEN "stale" ELSE "ok"
                     lines == LoggedFor(last'.logged, target)
                 IN /\ vu_diag_state'[target] = status
                    /\ status = vu_diag_state[target] => lines = {}
                    /\ status # vu_diag_state[target]
                        => /\ Cardinality(lines) = 1
                           /\ \A i \in lines :
                                  last'.logged[i][1][2] = status]_vars

\* a tick computed 'stale' for the local target a second time and logged
\* nothing for it, while the status of the remote target changed and was
\* logged
C16_Witness ==
    /\ last.op = "update_vu_from_redis"
    /\ vu_diag_state["local"] = "stale"
    /\ LoggedFor(last.logged, "local") = {}
    /\ LoggedFor(last.logged, "remote") # {}

\* C20, as stated: a telemetry tick that fetches the fresh record
\* {left_db: -20, right_db: -10, ts: now} for role tx makes has_real_data
\* of the local target true and sets its left and right levels to
\* db_to_normalized(-20) and db_to_normalized(-10).
C20_FreshSampleSetsLevels ==
    [][(last'.op = "update_vu_from_redis"
        /\ "fetch_vu_data" \in last'.calls /\ last'.args[1] = FreshHash)
          => /\ local_vu'.has_real_data
             /\ local_vu'.left = db_to_normalized(-20)
             /\ local_vu'.right = db_to_normalized(-10)]_vars

\* smooth_value(old, clamp(db_to_normalized(db) + j), 0.05) for the least
\* and the greatest jitter j of the band above 0.6, -0.15 and +0.15
SmoothedLow(old, db) ==
    smooth_value(old, clamp01(db_to_normalized(db) - 1500), 5)

SmoothedHigh(old, db) ==
    smooth_value(old, clamp01(db_to_normalized(db) + 1500), 5)

\* C20, amended: such a tick makes has_real_data of the local target true
\* and moves each of its levels to smooth_value(old level,
\* clamp(db_to_normalized(dB) + jitter), 0.05) with a jitter between -0.15
\* and +0.15, dB being -20 for the left level and -10 for the right one.
C20_FreshSampleMovesLevels ==
    [][(last'.op = "update_vu_from_redis"
        /\ "fetch_vu_data" \in last'.calls /\ last'.args[1] = FreshHash)
          => /\ local_vu'.has_real_data
             /\ vu_diag_state'["local"] = "ok"
             /\ SmoothedLow(local_vu.left, -20) <= local_vu'.left
             /\ local_vu'.left <= SmoothedHigh(local_vu.left, -20)
             /\ SmoothedLow(local_vu.right, -10) <= local_vu'.right
             /\ local_vu'.right <= SmoothedHigh(local_vu.right, -10)]_vars

\* a tick applied the fresh record for role tx to a local target that held
\* the levels of an earlier sample
C20_Witness ==
    /\ last.op = "update_vu_from_redis"
    /\ "fetch_vu_data" \in last.calls
    /\ last.args[1] = FreshHash
    /\ local_vu.has_real_data
    /\ vu_samples = 2
    /\ remote_vu.left = 0
    /\ local_vu.left # db_to_normalized(-20)

\* C17: on every animation frame, the levels of a target whose
\* has_real_data is false do not increase, and neither does the receiver
\* level while the remote target has no real data, whether or not the
\* worker is running.
C17_NoRiseWithoutRealData ==
    [][last'.op = "animate_vu_frame"
          => /\ ~local_vu.has_real_data
                 => /\ local_vu'.left <= local_vu.left
                    /\ local_vu'.right <= local_vu.right
             /\ ~remote_vu.has_real_data
                 => /\ remote_vu'.left <= remote_vu.left
                    /\ remote_vu'.right <= remote_vu.right
                    /\ receiver_level' <= receiver_level]_vars

\* the number of applications of decay that bring both levels to 0
RECURSIVE StepsToZero(_)
StepsToZero(vu) ==
    IF vu.left = 0 /\ vu.right = 0 THEN 0 ELSE 1 + StepsToZero(decay(vu))

\* C18: from any pair of levels in [0, 1], at most 29 applications of
\* VUState.decay bring both channels to exactly 0; an application never
\* raises a level, lowers every level that is above 0, and leaves a level
\* of 0 at 0.
C18_DecayReachesZero ==
    /\ [](StepsToZero(local_vu) <= 29)
    /\ [][last'.op = "vu.decay"
             => /\ local_vu'.left <= local_vu.left
                /\ local_vu'.right <= local_vu.right
                /\ local_vu.left > 0 => local_vu'.left < local_vu.left
                /\ local_vu.right > 0 => local_vu'.right < local_vu.right
                /\ local_vu.left = 0 => local_vu'.left = 0
                /\ local_vu.right = 0 => local_vu'.right = 0]_vars

\* decay brought the left level from just above the threshold to exactly
\* 0 while the right level, coming from full scale, is still above 0
C18_Witness ==
    /\ last.op = "vu.decay"
    /\ local_vu.left = 0
    /\ local_vu.right > 0 /\ local_vu.right < Scale
    /\ StepsToZero(local_vu) > 20

\* a token that is one word, not empty and not an option flag
PlainWord(tok) == /\ tok # "" /\ Words(tok) = <<tok>> /\ ~startswith_dash(tok)

\* the tokens from position i on are pairs of a flag among flags and a
\* plain word
RECURSIVE OptionPairs(_, _, _)
OptionPairs(parts, i, flags) ==
    \/ i > Len(parts)
    \/ /\ i + 1 <= Len(parts)
       /\ parts[i] \in flags
       /\ PlainWord(parts[i + 1])
       /\ OptionPairs(parts, i + 2, flags)

\* a well-formed argument string of role tx or of role rx: four plain
\* positionals with the role in fourth place, then for tx an optional peer
\* address, then options with their values, -d for rx only
WellFormed(parts) ==
    /\ Len(parts) >= 4
    /\ \A i \in 1..3 : PlainWord(parts[i])
    /\ \/ /\ parts[4] = "tx"
          /\ \/ OptionPairs(parts, 5, {"-e", "-r", "-j", "-a"})
             \/ /\ Len(parts) >= 5 /\ PlainWord(parts[5])
                /\ OptionPairs(parts, 6, {"-e", "-r", "-j", "-a"})
       \/ /\ parts[4] = "rx"
          /\ OptionPairs(parts, 5, {"-e", "-r", "-j", "-a", "-d"})

\* C19: the link configuration is always from_args of the argument string;
\* when the string is well formed for its role, serialising the
\* configuration with to_args and parsing the result gives the same
\* configuration field by field; and the default string parses to role tx,
\* peer 192.168.1.17, encoding pcm, sample rate 48000, jitter 60, backend
\* auto and is serialised to the same string.
C19_ArgsRoundTrip ==
    /\ [](link_config = from_args(args_string))
    /\ [](args_string = DefaultArgs
             => /\ link_config =
                       [config_host |-> "127.0.0.1", node_id |-> "emetteur",
                        link_name |-> "transmission", link_mode |-> "tx",
                        peer_ip |-> "192.168.1.17", encoding |-> "pcm",
                        sample_rate |-> "48000", jitter_buffer |-> "60",
                        audio_backend |-> "auto"]
                /\ to_args(link_config) = DefaultArgs)
    /\ [][(last'.op = "save_settings" /\ WellFormed(args_string))
             => /\ link_config' = link_config
                /\ WellFormed(args_string')]_vars

\* the settings were saved for a well-formed rx string with a backend and a
\* device: the string changed and the configuration did not
C19_Witness ==
    /\ last.op = "save_settings"
    /\ WellFormed(last.args[1])
    /\ last.args[1] # args_string
    /\ link_config = from_args(last.args[1])
    /\ link_config.link_mode = "rx"
    /\ link_config.audio_backend = "alsa"

\* C21: db_to_normalized maps -65 dB to exactly 0.0 and 0 dB to exactly 1.0,
\* its result is in [0, 1] for every input, below -65 dB and above 0 dB
\* included, and it is monotonically non-decreasing in its input.
C21_DbToNormalizedCurve ==
    last.op = "db_to_normalized" =>
        LET a == last.args[1]
            fa == last.args[2]
            b == last.args[3]
            fb == last.args[4]
        IN /\ a = MIN_DB => fa = 0
           /\ a = 0 => fa = Scale
           /\ 0 <= fa /\ fa <= Scale
           /\ a <= b => fa <= fb

\* a value above 0 dB and a value below -65 dB were converted
C21_Witness ==
    /\ last.op = "db_to_normalized"
    /\ last.args[1] < MIN_DB /\ last.args[2] = 0
    /\ last.args[3] > 0 /\ last.args[4] = Scale

\* C22: a toggle on a running worker (toggle_openob() of the controller or a
\* click on the toggle button, outside a cooldown) always starts the
\* cooldown, whatever the process manager's stop() returns: afterwards
\* cooldown_active is true and cooldown_remaining counts down from 5 (5, or
\* 4 once the window has run its first tick).
C22_StopLeadsToCooldown ==
    [][(/\ last'.op \in {"toggle_openob", "on_toggle_click"}
        /\ ~cooldown_active
        /\ openob_running
        /\ is_running(Cur))
       => (/\ "stop" \in last'.calls
           /\ cooldown_active'
           /\ cooldown_remaining' \in {COOLDOWN_SECONDS,
                                       COOLDOWN_SECONDS - 1})]_vars

\* C23: when start_openob() succeeds, state.openob_running is true and
\* exactly one status-change notification was fired, carrying
\* (redis_running, true); when it fails, for whatever reason,
\* state.openob_running is what it was and no status-change notification
\* was fired.
C23_StartNotifiesOnSuccessOnly ==
    [][last'.op = "start_openob" =>
         IF last'.success
         THEN /\ openob_running'
              /\ last'.notified = << <<redis_running', TRUE>> >>
         ELSE /\ openob_running' = openob_running
              /\ last'.notified = <<>>]_vars

\* a start succeeded and notified, with a worker launched
C23_Witness ==
    /\ last.op = "start_openob"
    /\ last.success
    /\ "start" \in last.calls
    /\ last.notified = << <<TRUE, TRUE>> >>
    /\ is_running(Cur)

\* C24: in stop() of the process manager on a running worker, terminate()
\* is the first signal sent; kill() is sent only when the worker has not
\* exited within the timeout, and a worker that exits within the timeout
\* receives terminate() alone.
C24_GracefulBeforeKill ==
    [][(last'.op = "pm.stop" /\ is_running(Cur)) =>
         LET sig == last'.signals
             way == last'.args[1]
         IN /\ Len(sig) >= 1
            /\ sig[1] = "terminate"
            /\ (\E i \in 1..Len(sig) : sig[i] = "kill") => way = "forced"
            /\ way = "forced" => sig = <<"terminate", "kill">>
            /\ way = "graceful" => sig = <<"terminate">>]_vars

\* a worker was stopped and exited within the timeout
C24_Witness ==
    /\ last.op = "pm.stop"
    /\ last.args = <<"graceful">>
    /\ last.signals = <<"terminate">>
    /\ last.success
    /\ spawned > 0
    /\ process = NoProc

\* C25: after check_requirements(), refresh_status() or is_openob_running()
\* returns, state.openob_running equals is_running of the process manager
\* (the handle is set and the process has not exited), and the notification
\* of the first two carries that value; and a toggle_openob() outside a
\* cooldown whose worker has exited on its own, whatever the flag says,
\* goes to start_openob() and never calls stop() or signals the worker.
C25_LivenessFromHandle ==
    [][/\ (last'.op \in {"check_requirements", "refresh_status",
                         "is_openob_running"})
          => /\ openob_running' = (process' # NoProc /\ process' \in alive')
             /\ "is_running" \in last'.calls
             /\ last'.op # "is_openob_running"
                => last'.notified = << <<redis_running', openob_running'>> >>
       /\ (last'.op = "toggle_openob" /\ ~cooldown_active
           /\ process # NoProc /\ process \notin alive)
          => /\ "can_start" \in last'.calls
             /\ "stop" \notin last'.calls
             /\ last'.signals = <<>>]_vars

\* the worker exited on its own while the flag said running, and the next
\* status poll reported it as not running
C25_Witness ==
    /\ last.op = "refresh_status"
    /\ process # NoProc
    /\ process \notin alive
    /\ ~openob_running
    /\ last.notified = << <<redis_running, FALSE>> >>

\* both targets carry the status, without real data
BothSilenced(diag, lvu, rvu, status) ==
    /\ diag["local"] = status /\ diag["remote"] = status
    /\ ~lvu.has_real_data /\ ~rvu.has_real_data

\* C26: with a link name configured, a telemetry tick that finds the
\* backend unreachable marks both targets 'blocked' with has_real_data
\* false, whether a connection was established before or not; and a tick
\* that finds the backend reachable ends connected, with neither target
\* 'blocked'.
C26_UnreachableIsBlockedAndRetried ==
    [][(last'.op = "telemetry_poll" /\ truthy(link_config.link_name)
        /\ truthy(link_config.config_host))
       => IF last'.args[1]
          THEN /\ rs_client' # NoClient
               /\ vu_diag_state'["local"] # "blocked"
               /\ vu_diag_state'["remote"] # "blocked"
          ELSE BothSilenced(vu_diag_state', local_vu', remote_vu',
                            "blocked")]_vars

\* the same for the ticks that start without a connection
BlockedBeforeConnection ==
    [][(last'.op = "telemetry_poll" /\ truthy(link_config.link_name)
        /\ truthy(link_config.config_host)
        /\ (rs_client = NoClient \/ last'.args[1]))
       => IF last'.args[1]
          THEN /\ rs_client' # NoClient
               /\ vu_diag_state'["local"] # "blocked"
               /\ vu_diag_state'["remote"] # "blocked"
          ELSE BothSilenced(vu_diag_state', local_vu', remote_vu',
                            "blocked")]_vars

C28_StatusCheckFrame ==
    [][last'.op \in {"check_requirements", "refresh_status"}
       => /\ UNCHANGED <<cdVars, pmVars>>
          /\ UNCHANGED <<local_vu, remote_vu, receiver_level, vu_diag_state,
                         link_config, args_string, rs_client, rs_host,
                         rs_port, redis_status, vu_loop_running, vu_after_id,
                         vu_pending, pending, btn_enabled, vu_samples>>
          /\ last'.calls = {"is_running"}
          /\ last'.signals = <<>>
          /\ redis_running' = (redis_status = "Running")
          /\ last'.notified = << <<redis_running', openob_running'>> >>]_vars

\* a status check ran during a cooldown, with a worker launched and gone,
\* real data on the local meter and the service stopped, and reported
\* both as not running
C28_Witness ==
    /\ last.op = "check_requirements"
    /\ cooldown_active /\ cooldown_remaining = 3
    /\ process # NoProc /\ process \notin alive
    /\ local_vu.has_real_data /\ local_vu.left > 0
    /\ vu_diag_state["remote"] = "stale"
    /\ link_config.node_id = "recepteur"
    /\ redis_status = "Stopped"
    /\ last.notified = << <<FALSE, FALSE>> >>

\* the state of s without what the operations returned and did on the way
Plain(s) ==
    [s EXCEPT !.success = TRUE, !.message = "", !.calls = {},
              !.signals = <<>>, !.notified = <<>>, !.arg = FALSE,
              !.logged = <<>>, !.args = <<>>]

\* C29: from any state and with the same observations of the environment, a
\* telemetry tick writes neither redis_running, openob_running nor the
\* cooldown fields, a status tick writes neither the VU states, the
\* receiver level nor the diagnostic map, and the telemetry tick followed
\* by the status tick leaves the same state, the same notifications and
\* the same log messages as the status tick followed by the telemetry tick.
C29_TicksCommute ==
    [][last'.op = "telemetry_then_status" =>
         LET e == last'.args[1]
             s == [Cur EXCEPT !.args = <<e>>]
             t == update_vu_from_redis_tick(fired(s, "telemetry"), FALSE, e)
             u == update_status_loop(fired(s, "status"), FALSE)
             ut == update_vu_from_redis_tick(fired(u, "telemetry"), FALSE, e)
         IN /\ t.redis_running = redis_running
            /\ t.openob_running = openob_running
            /\ t.cooldown_active = cooldown_active
            /\ t.cooldown_remaining = cooldown_remaining
            /\ u.local_vu = local_vu
            /\ u.remote_vu = remote_vu
            /\ u.receiver_level = receiver_level
            /\ u.vu_diag_state = vu_diag_state
            /\ Cur' = Plain(ut)
            /\ last'.notified = ut.notified
            /\ last'.logged = ut.logged]_vars

\* both ticks ran where each had something to write: the telemetry tick
\* applied a fresh sample and the status tick found the worker gone while
\* the flag said running
C29_Witness ==
    /\ last.op = "telemetry_then_status"
    /\ last.args[1].tx = FreshHash
    /\ local_vu.has_real_data
    /\ vu_diag_state["local"] = "ok"
    /\ process # NoProc /\ process \notin alive
    /\ ~openob_running
    /\ \E i \in 1..Len(last.logged) : last.logged[i][1][1] = "local"
    /\ last.notified # <<>>
    /\ cooldown_active

\* C30: stop_vu_loop() leaves the loop stopped with the callback it had
\* scheduled last cancelled; and while the loop is stopped, a tick callback
\* that still fires fetches no telemetry, animates no frame and schedules
\* no further tick: it makes no call to the telemetry client, logs
\* nothing, and leaves the VU states, the receiver level, the diagnostic
\* map and the timer queue as they were.
C30_StoppedLoopDoesNothing ==
    [][/\ last'.op = "stop_vu_loop"
          => /\ ~vu_loop_running'
             /\ vu_after_id' = 0
             /\ vu_after_id \notin vu_pending'
             /\ vu_pending' \subseteq vu_pending
       /\ (last'.op = "vu_loop_tick" /\ ~vu_loop_running)
          => /\ last'.calls = {}
             /\ last'.logged = <<>>
             /\ last'.args = <<>>
             /\ ~vu_loop_running'
             /\ vu_pending' \subseteq vu_pending
             /\ Cardinality(vu_pending') = Cardinality(vu_pending) - 1
             /\ UNCHANGED <<local_vu, remote_vu, receiver_level,
                            vu_diag_state, rs_client, rs_host, rs_port,
                            vu_frames, vu_samples, vu_after_id>>]_vars

\* a callback scheduled before the loop was stopped fired afterwards, with
\* the loop still stopped
C30_Witness ==
    /\ last.op = "vu_loop_tick"
    /\ ~vu_loop_running
    /\ vu_after_id = 0
    /\ last.calls = {}
    /\ vu_pending = {}

\* C31: in every reachable state, after any sequence of telemetry ticks
\* (whatever the decibel samples and the draws of the jitter) and animation
\* frames (decay or simulation), the left and the right level of both VU
\* states and the receiver level are within [0, 1].
C31_LevelsWithinRange ==
    /\ local_vu.left \in 0..Scale
    /\ local_vu.right \in 0..Scale
    /\ remote_vu.left \in 0..Scale
    /\ remote_vu.right \in 0..Scale
    /\ receiver_level \in 0..Scale

\* a second sample above full scale has been applied to the local target
\* with the jitter drawn upwards, and the level is not yet at full scale
C31_Witness ==
    /\ last.op = "level_tick"
    /\ local_vu.has_real_data
    /\ vu_samples >= 2
    /\ local_vu.left > 9500
    /\ local_vu.left < Scale

\* the same state with the other link role configured
OtherRole(s) ==
    [s EXCEPT !.link_config.link_mode = IF @ = "rx" THEN "tx" ELSE "rx"]

\* the VU state and the diagnostic status of one target
Side(s, target) ==
    <<IF target = "local" THEN s.local_vu ELSE s.remote_vu,
      s.vu_diag_state[target]>>

\* C32: on every telemetry tick the local VU state is updated only from the
\* sample of role tx and the remote VU state only from the sample of role
\* rx, whatever the configured link role: with another sample (or none, or a
\* stale one) for the other role, or with the other link role configured,
\* the tick leaves the same levels, has_real_data and diagnostic status on
\* the target.
C32_RoleFeedsItsTarget ==
    [][last'.op = "role_tick"
          => LET e == last'.args[1] IN
             /\ \A rx \in Hashes, u \in Draws, flip \in BOOLEAN :
                    LET s == IF flip THEN OtherRole(Cur) ELSE Cur
                        t == update_vu_from_redis(
                                 s, [e EXCEPT !.rx = rx, !.u_remote = u])
                    IN Side(t, "local")
                           = <<local_vu', vu_diag_state'["local"]>>
             /\ \A tx \in Hashes, u \in Draws, flip \in BOOLEAN :
                    LET s == IF flip THEN OtherRole(Cur) ELSE Cur
                        t == update_vu_from_redis(
                                 s, [e EXCEPT !.tx = tx, !.u_local = u])
                    IN Side(t, "remote")
                           = <<remote_vu', vu_diag_state'["remote"]>>
         ]_vars

\* a receiver is configured and a tick met a fresh sample of tx and no
\* record of rx: the local target shows real data, the remote one does not
C32_Witness ==
    /\ last.op = "role_tick"
    /\ link_config.link_mode = "rx"
    /\ last.args[1].tx = FreshHash
    /\ last.args[1].rx = EmptyHash
    /\ local_vu.has_real_data
    /\ ~remote_vu.has_real_data
    /\ vu_diag_state = [local |-> "ok", remote |-> "no-data"]

\* the fields of SavedConfig that belong to each role
TxFields ==
    {"tx_config_host", "tx_node_name", "tx_link_name", "tx_peer_ip",
     "tx_encoding", "tx_sample_rate", "tx_jitter_buffer", "tx_audio_backend"}

RxFields ==
    {"rx_config_host", "rx_node_name", "rx_link_name", "rx_audio_backend",
     "rx_alsa_device"}

\* C33: update_from_args(args, role) changes only the active-role field and
\* the fields of the given role: for role tx every rx_* field, for role rx
\* every tx_* field, and in both cases auto_start and vpn_enabled, keep
\* their previous values, for any argument string.
C33_UpdateFromArgsFrame ==
    [][last'.op = "update_from_args"
          => LET role == last'.args[2]
                 others == (IF role = "tx" THEN RxFields ELSE TxFields)
                               \cup {"auto_start", "vpn_enabled"}
             IN /\ \A f \in others : saved_config'[f] = saved_config[f]
                /\ saved_config'.transmission_mode = role
         ]_vars

\* a receiver string has been applied to a record whose transmitter fields
\* and auto-start flag are not the defaults
C33_Witness ==
    /\ last.op = "update_from_args"
    /\ last.args[2] = "rx"
    /\ Len(last.args[1]) >= 4
    /\ saved_config.rx_config_host = "10.0.0.2:6380"
    /\ saved_config.tx_encoding = "opus"
    /\ saved_config.tx_config_host = "10.0.0.2"
    /\ ~saved_config.auto_start

\* the record a program started now would load
Reloaded == load([Fresh EXCEPT !.config_file = config_file]).saved_config

\* C34: the persisted record is rewritten on every accepted change: after
\* set_args(s) or set_auto_start(b) with a successful save, the file holds
\* the SavedConfig of memory and a load() after a restart yields the same
\* record; a failed save returns false, raises nothing and leaves the
\* record of memory as updated.
C34_SavedOnEveryChange ==
    [][/\ last'.op = "set_args"
          => /\ saved_config'
                    = update_from_args(saved_config, last'.args[1],
                                       mode_of(last'.args[1]))
             /\ disk = "ok" => /\ config_file' = JsonFile(saved_config')
                               /\ Reloaded' = saved_config'
       /\ last'.op = "set_auto_start"
          => /\ saved_config'
                    = [saved_config EXCEPT !.auto_start = last'.args[1]]
             /\ disk = "ok" => /\ config_file' = JsonFile(saved_config')
                               /\ Reloaded' = saved_config'
       /\ last'.op = "save"
          => /\ last'.success = (disk = "ok")
             /\ saved_config' = saved_config
             /\ disk = "ok" => Reloaded' = saved_config
      ]_vars

\* a receiver string has been saved over a file that held a transmitter
C34_Witness ==
    /\ last.op = "set_args"
    /\ disk = "ok"
    /\ saved_config.transmission_mode = "rx"
    /\ saved_config.rx_audio_backend = "alsa"
    /\ saved_config.tx_encoding = "opus"
    /\ config_file = JsonFile(saved_config)

\* a save has failed: memory holds the change and the file does not
C34_WitnessFailedSave ==
    /\ last.op \in {"set_args", "set_auto_start"}
    /\ disk # "ok"
    /\ config_file # JsonFile(saved_config)

C36_OneVuTickPending == Cardinality(vu_pending) <= 1

\* C37: in every reachable state, a connected telemetry client is connected
\* to the host and port derived from the config_host of the current link
\* configuration: a set_args that changes config_host disconnects the
\* client before the next telemetry tick, so that no sample is fetched from
\* a host configured before.
C37_ClientFollowsConfigHost ==
    /\ [](rs_client # NoClient
             => <<rs_host, rs_port>>
                    = parse_host_port(link_config.config_host))
    /\ [][(/\ last'.op = "set_args"
           /\ link_config'.config_host # link_config.config_host)
             => rs_client' = NoClient]_vars

\* the arguments have named another host after a sample of the first host
\* was applied, and the client is gone
C37_Witness ==
    /\ last.op = "set_args"
    /\ link_config.config_host = "10.0.0.2:6380"
    /\ vu_diag_state["local"] = "ok"
    /\ vu_samples > 0
    /\ rs_client = NoClient

\* C38: after set_args(s) for a well-formed argument string s, the saved
\* record agrees with the active link configuration: transmission_mode
\* equals link_mode, and get_current_args() parses with LinkConfig.from_args
\* to the same LinkConfig as s, so that a restart restores the
\* configuration the operator entered.
C38_SavedArgsMatchLinkConfig ==
    [][(last'.op = "set_args" /\ WellFormed(last'.args[1]))
          => /\ saved_config'.transmission_mode = link_config'.link_mode
             /\ from_args(get_current_args(saved_config'))
                    = from_args(last'.args[1])]_vars

\* the part of it that holds: the saved mode is the role of the string,
\* the positional fields of that role are those of the string, and a
\* default string is restored as it was entered
SavedPositionalsMatch ==
    [][(last'.op = "set_args" /\ WellFormed(last'.args[1]))
          => LET c == from_args(get_current_args(saved_config')) IN
             /\ saved_config'.transmission_mode = link_config'.link_mode
             /\ c.config_host = link_config'.config_host
             /\ c.node_id = link_config'.node_id
             /\ c.link_name = link_config'.link_name
             /\ c.link_mode = link_config'.link_mode
             /\ last'.args[1] = DefaultArgs => c = link_config']_vars

\* C39: whenever a start returns success, the command it launched names a
\* launch target that exists: the worker entry point exists on disk, or the
\* fallback script was used; when can_start() is true only because the
\* fallback script exists, a start without use_fallback does not launch the
\* missing entry point and report success.
C39_LaunchTargetExists ==
    [][(last'.op = "start_openob" /\ last'.success)
          => \/ script_exists
             \/ launch_cmd(last'.arg) = "fallback"]_vars

\* the case C39 names: the entry point is missing, the fallback script
\* exists, and a start without use_fallback reports success
MissingEntryPointStarted ==
    /\ last.op = "start_openob" /\ last.success /\ last.arg = FALSE
    /\ ~script_exists /\ fallback_exists
    /\ last.message = "Started OpenOB (direct venv)"

\* C40: cooldown becomes active only as the consequence of stopping a worker
\* that was actually running: a toggle click that starts a cooldown has sent
\* terminate() to a worker that was alive at the click.
C40_CooldownOnlyAfterStop ==
    [][(last'.op = "on_toggle_click" /\ ~cooldown_active /\ cooldown_active')
          => /\ process \in alive
             /\ Len(last'.signals) > 0
             /\ last'.signals[1] = "terminate"]_vars

\* the case C40 names: the worker exited on its own after the last status
\* poll, and the click starts a cooldown without signalling any process
CooldownWithoutStop ==
    /\ last.op = "on_toggle_click"
    /\ cooldown_active /\ cooldown_remaining = 4
    /\ last.signals = <<>>
    /\ last.message = "OpenOB not running"
    /\ process \notin alive /\ openob_running

====
